---------------------------- MODULE Spec2Model ----------------------------
(***************************************************************************)
(* Model of the ESP8266 AT transport (transport_esp8266.cpp, the complete  *)
(* draft in src/unnamed/part_000) and of the Linux serial link underneath  *)
(* it (serial.cpp, src/unnamed/part_001).                                  *)
(*                                                                         *)
(* Threads: the caller (Connect / Disconnect / send / recv), the transport *)
(* rxThread (the RX demultiplexer), and the serial link's two workers.     *)
(* Bytes are one-character strings; NUL is the C string terminator.        *)
(***************************************************************************)
EXTENDS Integers, Sequences, FiniteSets, TLC

\* ------------------------------------------------------------ constants

\* enum transportStatus, part_000:58-65
AT_UNINITIALIZED == 0
MQUEUE_UNINITIALIZED == 1
RX_THREAD_UNINITIALIZED == 2
AT_READY == 3
CONNECTED == 4
ERROR == 5

\* part_000:51, the serial buffers' capacity and the data queue's length
BUFFER_LEN == 128
\* part_000:56
AT_REPLY_LEN == 7
\* part_000:164, bytes one AT+CIPSEND round carries
CHUNK == 2048
\* part_000:312, char c[10]
SCRATCH_LEN == 10
\* the descriptor open() returns for the serial device (non-zero), part_001:71
DEVICE_FD == 3
\* part_001:71: open() of a device that cannot be opened returns -1
OPEN_FAILED == -1
\* int32_t (part_000:141, part_000:313) is kept as two 16-bit halves: a
\* value is hi * HALF + lo, so that every intermediate number stays small
HALF == 65536

\* enum esp8266TransportStatus, transport_esp8266.h:34-38
ESP8266_TRANSPORT_SUCCESS == 1
ESP8266_TRANSPORT_INVALID_PARAMETER == 2
ESP8266_TRANSPORT_CONNECT_FAILURE == 3

\* ------------------------------------------------------------ bounds

\* a send is given 0, 1 or 2 bytes, or a multiple, up to MaxChunks, of the
\* chunk ceiling, or one byte more than that
MaxChunks == 1
\* sends made in one behaviour
MaxSends == 1
\* calls of Connect made in one behaviour
MaxConnects == 2
\* largest ordinary capacity a recv call is given
MaxRecv == 2
\* longest payload of a +IPD frame on the wire
MaxPayload == 2
\* leading zeros the length text of a frame may carry are 0 or MaxPad
MaxPad == 4

\* ------------------------------------------------------------ bytes

NUL == "NUL"
CR == "\r"
LF == "\n"
Marker == <<"+", "I", "P", "D", ",">>
DigitSeq == <<"0", "1", "2", "3", "4", "5", "6", "7", "8", "9">>
DigitChars == {DigitSeq[i] : i \in 1..10}
SpaceChars == {" ", "\t", CR, LF}

DigitVal(ch) == (CHOOSE i \in 1..10 : DigitSeq[i] = ch) - 1

\* the int32_t whose bit pattern is the two halves (two's complement)
ToInt32(hi, lo) ==
    LET h == hi % HALF
    IN  IF h >= HALF \div 2 THEN (h - HALF) * HALF + lo ELSE h * HALF + lo

\* the halves of -v, for the halves of v
NegHalves(h) ==
    IF h[2] = 0 THEN <<(HALF - h[1]) % HALF, 0>>
    ELSE <<(HALF - 1 - h[1]) % HALF, HALF - h[2]>>

RECURSIVE Itoa(_)
\* printf("%d") of a non-negative int
Itoa(n) ==
    IF n < 10 THEN <<DigitSeq[n + 1]>>
    ELSE Append(Itoa(n \div 10), DigitSeq[(n % 10) + 1])

RECURSIVE AtoiDigits(_, _, _)
\* the digits' value modulo 2^32, as halves
AtoiDigits(s, i, acc) ==
    IF i > Len(s) \/ s[i] \notin DigitChars THEN acc
    ELSE LET lo == acc[2] * 10 + DigitVal(s[i])
             hi == acc[1] * 10 + (lo \div HALF)
         IN  AtoiDigits(s, i + 1, <<hi % HALF, lo % HALF>>)

RECURSIVE SkipSpaces(_, _)
SkipSpaces(s, i) ==
    IF i <= Len(s) /\ s[i] \in SpaceChars THEN SkipSpaces(s, i + 1) ELSE i

\* atoi(3): optional white space, optional sign, then decimal digits up to
\* the first byte that is not a digit; the result is narrowed to int
Atoi(s) ==
    LET i == SkipSpaces(s, 1)
        neg == i <= Len(s) /\ s[i] = "-"
        j == IF i <= Len(s) /\ s[i] \in {"-", "+"} THEN i + 1 ELSE i
        v == AtoiDigits(s, j, <<0, 0>>)
        w == IF neg THEN NegHalves(v) ELSE v
    IN  ToInt32(w[1], w[2])

IsPrefix(s, t) == Len(s) <= Len(t) /\ SubSeq(t, 1, Len(s)) = s

Min(a, b) == IF a < b THEN a ELSE b


\* ------------------------------------------------------------ state

VARIABLES
    proc,            \* "running", or "exited" after exit()
    \* serial link, part_001:54-63
    serial_fd, bufferLen, rxBuffer, txBuffer, rxPos, txPos, run,
    srx_pc, srx_c,   \* serial rxThread: position and its local c
    stx_pc, stx_c,   \* serial txThread: position and its local c
    \* the device: the bytes it delivers, and how many were read so far
    script, wirePos,
    replies,         \* what the modem will answer to the next commands
    \* transport, part_000:44-67
    esp8266_status, controlQ, dataQ,
    \* transport rxThread: position and locals (part_000:312-314)
    rxt_pc, c, data_lenght, index, flush_n, flush_i,
    garbage,         \* the value an uninitialized stack byte reads as
    \* caller thread: position, the operation that returned last and its
    \* return value
    pc, last, ret,
    \* esp8266AT_recv: argument (a size_t, as halves <<hi, lo>>) and locals
    bytesToRecv, bytes_read, pBuffer,
    \* esp8266AT_send: argument and locals
    bytesToSend, bytes_sent, command, send_i, final,
    \* history: bytes the demultiplexer pulled, and bytes put in each queue
    pulled, ctrlPut, dataPut,
    \* history: bytes recv returned; the data queue and the two histories'
    \* lengths when the running recv was called
    dataGot, recvQ0, recvPut0, recvGot0,
    \* history of the running send: its length argument, one record per
    \* command round, and whether every payload byte the serial link accepted
    \* so far was the next byte of the caller's buffer
    sendLen, rounds, payInOrder,
    sendCalls,       \* sends called so far
    \* esp8266AT_Connect: arguments, the locals of check_AT and start_TCP,
    \* and the calls made so far
    pHostName, port, at_cmd_response, at_i, tcp_c, connCalls,
    handshakes,      \* history: the times check_AT was entered
    stages,          \* history: the stages of Connect and Disconnect run
    mqOpen,          \* the four queue descriptors are open
    fdOpen           \* serial_fd names an open descriptor

serialVars == <<serial_fd, bufferLen, rxBuffer, txBuffer, rxPos, txPos, run,
                srx_pc, srx_c, stx_pc, stx_c>>
deviceVars == <<script, wirePos, replies>>
queueVars == <<controlQ, dataQ>>
demuxVars == <<rxt_pc, c, data_lenght, index, flush_n, flush_i>>
histVars == <<pulled, ctrlPut, dataPut>>
recvVars == <<bytesToRecv, bytes_read, pBuffer, dataGot, recvQ0, recvPut0,
              recvGot0>>
sendVars == <<bytesToSend, bytes_sent, command, send_i, final, sendLen, rounds,
              payInOrder, sendCalls>>
lifeVars == <<stages, mqOpen, fdOpen>>
connVars == <<pHostName, port, at_cmd_response, at_i, tcp_c, connCalls,
              handshakes, lifeVars>>
callerVars == <<pc, last, ret, recvVars, sendVars, connVars>>

vars == <<proc, serialVars, deviceVars, esp8266_status, queueVars, demuxVars,
          garbage, callerVars, histVars>>

\* mq_maxmsg of the control queue, part_000:77
ControlQLen == BUFFER_LEN \div 2
\* mq_maxmsg of the data queue, part_000:92
DataQLen == BUFFER_LEN

\* ------------------------------------------------------------ serial link

\* faulty variants of Front and ShiftDown, for the sensitivity checks of C2
\* and C4: the newest byte is taken, the newest byte is removed
Newest(buf) == buf[Len(buf)]
DropNewest(buf) == SubSeq(buf, 1, Len(buf) - 1)

\* a faulty variant of ShiftDown, for the sensitivity check of C19: the
\* byte taken stays in the buffer
KeepAll(buf) == buf

\* part_001:104-108 and 194-198: the byte at the front, and the buffer
\* after the shift-down that removes it
Front(buf) == Head(buf)
ShiftDown(buf) == Tail(buf)

\* serial rxThread, part_001:167: while (run)
SerialRxTop ==
    /\ proc = "running" /\ srx_pc = "top"
    /\ srx_pc' = IF run # 0 THEN "read" ELSE "done"
    /\ UNCHANGED <<proc, serial_fd, bufferLen, rxBuffer, txBuffer, rxPos, txPos,
                   run, srx_c, stx_pc, stx_c, deviceVars, esp8266_status,
                   queueVars, demuxVars, garbage, callerVars, histVars>>

\* part_001:168-172: read() blocks until the device has a byte; on a
\* descriptor that is not open it returns -1, and the worker clears run and
\* leaves
SerialRxRead ==
    /\ proc = "running" /\ srx_pc = "read"
    /\ IF fdOpen
       THEN /\ wirePos < Len(script)
            /\ srx_c' = script[wirePos + 1]
            /\ wirePos' = wirePos + 1
            /\ srx_pc' = "check"
            /\ UNCHANGED run
       ELSE /\ run' = 0
            /\ srx_pc' = "done"
            /\ UNCHANGED <<srx_c, wirePos>>
    /\ UNCHANGED <<proc, serial_fd, bufferLen, rxBuffer, txBuffer, rxPos, txPos,
                   stx_pc, stx_c, script, replies, esp8266_status,
                   queueVars, demuxVars, garbage, callerVars, histVars>>

\* a faulty variant of RxHasRoom, for the sensitivity check of C21: the
\* worker pushes whatever the buffer holds
RxHasRoomAlways == TRUE

\* part_001:174: if (rxPos < bufferLen)
RxHasRoom == rxPos < bufferLen

\* part_001:173-183: the unlocked test; a full buffer makes the worker
\* sleep and test again (no step)
SerialRxCheck ==
    /\ proc = "running" /\ srx_pc = "check"
    /\ RxHasRoom
    /\ srx_pc' = "push"
    /\ UNCHANGED <<proc, serial_fd, bufferLen, rxBuffer, txBuffer, rxPos, txPos,
                   run, srx_c, stx_pc, stx_c, deviceVars, esp8266_status,
                   queueVars, demuxVars, garbage, callerVars, histVars>>

\* part_001:175-178: the push, under rxBufferLock
SerialRxPush ==
    /\ proc = "running" /\ srx_pc = "push"
    /\ rxBuffer' = Append(rxBuffer, srx_c)
    /\ rxPos' = rxPos + 1
    /\ srx_pc' = "top"
    /\ UNCHANGED <<proc, serial_fd, bufferLen, txBuffer, txPos,
                   run, srx_c, stx_pc, stx_c, deviceVars, esp8266_status,
                   queueVars, demuxVars, garbage, callerVars, histVars>>

\* serial txThread, part_001:191-192 and 206-208: while (run), if (txPos);
\* an empty buffer makes the worker sleep and test again (no step)
SerialTxTop ==
    /\ proc = "running" /\ stx_pc = "top"
    /\ run = 0 \/ txPos # 0
    /\ stx_pc' = IF run = 0 THEN "done" ELSE "pop"
    /\ UNCHANGED <<proc, serial_fd, bufferLen, rxBuffer, txBuffer, rxPos, txPos,
                   run, srx_pc, srx_c, stx_c, deviceVars, esp8266_status,
                   queueVars, demuxVars, garbage, callerVars, histVars>>

\* what txPos reads as after txPos-- at 0: UINT_MAX, kept as -1
WRAPPED == -1

\* part_001:193-199: the pop, under txBufferLock. The test of txPos was
\* made before the lock was taken (part_001:192): when vSerialClose has
\* set txPos to 0 since (part_001:143, without the lock), the shift loop
\* runs to i = UINT_MAX - 1, far off the buffer, and txPos-- wraps; the
\* loop ends the process at the first page it may not touch, or it
\* completes and leaves the wrapped counter
SerialTxPop ==
    /\ proc = "running" /\ stx_pc = "pop"
    /\ IF txPos > 0
       THEN /\ stx_c' = Front(txBuffer)
            /\ txBuffer' = ShiftDown(txBuffer)
            /\ txPos' = txPos - 1
            /\ stx_pc' = "write"
            /\ UNCHANGED proc
       ELSE \E survives \in BOOLEAN :
               IF survives
               THEN /\ stx_c' = garbage
                    /\ txPos' = WRAPPED
                    /\ stx_pc' = "write"
                    /\ UNCHANGED <<proc, txBuffer>>
               ELSE /\ proc' = "crashed"
                    /\ UNCHANGED <<stx_c, txBuffer, txPos, stx_pc>>
    /\ UNCHANGED <<serial_fd, bufferLen, rxBuffer, rxPos,
                   run, srx_pc, srx_c, deviceVars, esp8266_status,
                   queueVars, demuxVars, garbage, callerVars, histVars>>

\* part_001:200-204: write() of the popped byte to the device; the modem
\* answers a command when the line feed that ends it arrives; on a
\* descriptor that is not open write() returns -1, and the worker clears run
\* and leaves
SerialTxWrite ==
    /\ proc = "running" /\ stx_pc = "write"
    /\ IF fdOpen
       THEN /\ stx_pc' = "top"
            /\ IF stx_c = LF /\ replies # <<>>
               THEN /\ script' = script \o Head(replies)
                    /\ replies' = Tail(replies)
               ELSE UNCHANGED <<script, replies>>
            /\ UNCHANGED run
       ELSE /\ run' = 0
            /\ stx_pc' = "done"
            /\ UNCHANGED <<script, replies>>
    /\ UNCHANGED <<proc, serial_fd, bufferLen, rxBuffer, txBuffer, rxPos, txPos,
                   srx_pc, srx_c, stx_c, wirePos, esp8266_status,
                   queueVars, demuxVars, garbage, callerVars, histVars>>

\* ------------------------------------------------------------ RX demultiplexer

\* what the scratch array reads as a C string: the bytes before the first
\* NUL; with no NUL in c[0..9] the read runs past the array into a byte of
\* unknown value
CText(arr) ==
    LET nuls == {k \in 0..(SCRATCH_LEN - 1) : arr[k] = NUL}
        stop == IF nuls = {} THEN SCRATCH_LEN
                ELSE CHOOSE k \in nuls : \A m \in nuls : k <= m
        body == [k \in 1..stop |-> arr[k - 1]]
    IN  IF nuls = {} THEN Append(body, garbage) ELSE body

\* part_000:323-331: does the byte just stored in c[k] continue the marker
MatchesMarker(k, ch) == ch = Marker[k + 1]

\* a faulty variant of FlushCount, for the sensitivity check of C3: the
\* mismatching byte is left out
FlushCountShort(k) == k

\* part_000:349-361: send_to_controlQ(n, c) after a mismatch in c[k]
FlushCount(k) == k + 1

\* part_000:342: data_lenght = atoi(c)
ParsedLength(arr) == Atoi(CText(arr))

\* the transport's xSerialGetChar call succeeds: part_001:102
RxAvailable == serial_fd # 0 /\ rxPos # 0

\* part_000:317: spin until the status leaves RX_THREAD_UNINITIALIZED
DemuxWait ==
    /\ proc = "running" /\ rxt_pc = "wait"
    /\ esp8266_status # RX_THREAD_UNINITIALIZED
    /\ rxt_pc' = "loop"
    /\ UNCHANGED <<proc, serialVars, deviceVars, esp8266_status, queueVars,
                   c, data_lenght, index, flush_n, flush_i, garbage,
                   callerVars, histVars>>

\* part_000:321: while (esp8266_status > RX_THREAD_UNINITIALIZED)
DemuxLoop ==
    /\ proc = "running" /\ rxt_pc = "loop"
    /\ rxt_pc' = IF esp8266_status > RX_THREAD_UNINITIALIZED THEN "get0"
                 ELSE "exit"
    /\ UNCHANGED <<proc, serialVars, deviceVars, esp8266_status, queueVars,
                   c, data_lenght, index, flush_n, flush_i, garbage,
                   callerVars, histVars>>

\* part_000:322-323 and 364: one try of xSerialGetChar into c[0]
DemuxGet0 ==
    /\ proc = "running" /\ rxt_pc = "get0"
    /\ IF RxAvailable
       THEN /\ c' = [c EXCEPT ![0] = Front(rxBuffer)]
            /\ rxBuffer' = ShiftDown(rxBuffer)
            /\ rxPos' = rxPos - 1
            /\ pulled' = Append(pulled, Front(rxBuffer))
            /\ rxt_pc' = IF MatchesMarker(0, Front(rxBuffer)) THEN "get1"
                         ELSE "put0"
       ELSE /\ rxt_pc' = "loop"
            /\ UNCHANGED <<c, rxBuffer, rxPos, pulled>>
    /\ UNCHANGED <<proc, serial_fd, bufferLen, txBuffer, txPos, run, srx_pc,
                   srx_c, stx_pc, stx_c, deviceVars, esp8266_status, queueVars,
                   data_lenght, index, flush_n, flush_i, garbage,
                   callerVars, ctrlPut, dataPut>>

\* mq_send(3) that returns whatever the queue holds
MqSendReturnsAlways(q, maxmsg) == TRUE

\* part_000:90-93: the sending descriptors are opened without O_NONBLOCK,
\* so mq_send(3) returns once the queue holds fewer than mq_maxmsg messages
\* and waits until then
MqSendReturns(q, maxmsg) == Len(q) < maxmsg

\* part_000:365: mq_send(controlQTx, c, 1, 0), blocking while the queue is full
DemuxPut0 ==
    /\ proc = "running" /\ rxt_pc = "put0"
    /\ MqSendReturns(controlQ, ControlQLen)
    /\ controlQ' = Append(controlQ, c[0])
    /\ ctrlPut' = Append(ctrlPut, c[0])
    /\ rxt_pc' = "loop"
    /\ UNCHANGED <<proc, serialVars, deviceVars, esp8266_status, dataQ,
                   c, data_lenght, index, flush_n, flush_i, garbage,
                   callerVars, pulled, dataPut>>

\* part_000:324-331: while (!xSerialGetChar(&c[k])) for k = 1..4, then the
\* comparison with the marker's next byte
DemuxGetK(k) ==
    /\ proc = "running" /\ rxt_pc = "get" \o DigitSeq[k + 1]
    /\ RxAvailable
    /\ rxBuffer' = ShiftDown(rxBuffer)
    /\ rxPos' = rxPos - 1
    /\ pulled' = Append(pulled, Front(rxBuffer))
    /\ IF MatchesMarker(k, Front(rxBuffer))
       THEN IF k < 4
            THEN /\ c' = [c EXCEPT ![k] = Front(rxBuffer)]
                 /\ rxt_pc' = "get" \o DigitSeq[k + 2]
                 /\ UNCHANGED <<index, flush_n, flush_i>>
            ELSE \* part_000:332-333
                 /\ c' = [c EXCEPT ![k] = Front(rxBuffer), ![9] = NUL]
                 /\ index' = 0
                 /\ rxt_pc' = "len"
                 /\ UNCHANGED <<flush_n, flush_i>>
       ELSE /\ c' = [c EXCEPT ![k] = Front(rxBuffer)]
            /\ flush_n' = FlushCount(k)
            /\ flush_i' = 0
            /\ rxt_pc' = "flush"
            /\ UNCHANGED index
    /\ UNCHANGED <<proc, serial_fd, bufferLen, txBuffer, txPos, run, srx_pc,
                   srx_c, stx_pc, stx_c, deviceVars, esp8266_status, queueVars,
                   data_lenght, garbage, callerVars, ctrlPut, dataPut>>

DemuxGet == \E k \in 1..4 : DemuxGetK(k)

\* part_000:373-378: send_to_controlQ, one blocking mq_send per step
DemuxFlush ==
    /\ proc = "running" /\ rxt_pc = "flush"
    /\ MqSendReturns(controlQ, ControlQLen)
    /\ controlQ' = Append(controlQ, c[flush_i])
    /\ ctrlPut' = Append(ctrlPut, c[flush_i])
    /\ flush_i' = flush_i + 1
    /\ rxt_pc' = IF flush_i + 1 < flush_n THEN "flush" ELSE "loop"
    /\ UNCHANGED <<proc, serialVars, deviceVars, esp8266_status, dataQ,
                   c, data_lenght, index, flush_n, garbage,
                   callerVars, pulled, dataPut>>

\* part_000:334-342: one byte of the length text into c[9]; ':' or the ninth
\* byte ends the loop and atoi(c) sets data_lenght
DemuxLen ==
    /\ proc = "running" /\ rxt_pc = "len"
    /\ RxAvailable
    /\ rxBuffer' = ShiftDown(rxBuffer)
    /\ rxPos' = rxPos - 1
    /\ pulled' = Append(pulled, Front(rxBuffer))
    /\ LET ch == Front(rxBuffer)
           c9 == [c EXCEPT ![9] = ch]
           isEnd == ch = ":"
           cNew == IF isEnd THEN [c9 EXCEPT ![index + 1] = NUL]
                   ELSE [c9 EXCEPT ![index] = ch]
           over == isEnd \/ index + 1 >= 9
           n == ParsedLength(cNew)
       IN  /\ c' = cNew
           /\ index' = index + 1
           /\ IF over
              THEN /\ data_lenght' = n
                   /\ rxt_pc' = IF n > 0 THEN "pay_get" ELSE "loop"
              ELSE /\ rxt_pc' = "len"
                   /\ UNCHANGED data_lenght
    /\ UNCHANGED <<proc, serial_fd, bufferLen, txBuffer, txPos, run, srx_pc,
                   srx_c, stx_pc, stx_c, deviceVars, esp8266_status, queueVars,
                   flush_n, flush_i, garbage, callerVars, ctrlPut, dataPut>>

\* part_000:344: while (!xSerialGetChar(c)) for one payload byte
DemuxPayGet ==
    /\ proc = "running" /\ rxt_pc = "pay_get"
    /\ RxAvailable
    /\ c' = [c EXCEPT ![0] = Front(rxBuffer)]
    /\ rxBuffer' = ShiftDown(rxBuffer)
    /\ rxPos' = rxPos - 1
    /\ pulled' = Append(pulled, Front(rxBuffer))
    /\ rxt_pc' = "pay_put"
    /\ UNCHANGED <<proc, serial_fd, bufferLen, txBuffer, txPos, run, srx_pc,
                   srx_c, stx_pc, stx_c, deviceVars, esp8266_status, queueVars,
                   data_lenght, index, flush_n, flush_i, garbage,
                   callerVars, ctrlPut, dataPut>>

\* part_000:343-346: mq_send(dataQTx, c, 1, 0), blocking while the queue is
\* full, then data_lenght--
DemuxPayPut ==
    /\ proc = "running" /\ rxt_pc = "pay_put"
    /\ MqSendReturns(dataQ, DataQLen)
    /\ dataQ' = Append(dataQ, c[0])
    /\ dataPut' = Append(dataPut, c[0])
    /\ data_lenght' = data_lenght - 1
    /\ rxt_pc' = IF data_lenght - 1 > 0 THEN "pay_get" ELSE "loop"
    /\ UNCHANGED <<proc, serialVars, deviceVars, esp8266_status, controlQ,
                   c, index, flush_n, flush_i, garbage,
                   callerVars, pulled, ctrlPut>>

\* ------------------------------------------------------------ device input

\* the first k bytes of the marker
Partial(k) == SubSeq(Marker, 1, k)

\* bytes that end a partial match: an ordinary byte, and the byte that
\* starts the marker
MismatchBytes == {"x", "+"}

\* short pieces of control stream: nothing, a partial marker, a partial
\* marker (or nothing) and a byte that does not continue it
Chunks ==
    {<<>>} \cup {Partial(k) : k \in 1..4}
           \cup {Append(Partial(k), m) : k \in 0..4, m \in MismatchBytes}

PayloadBytes == <<"a", "+", "b">>
Payload(n) == [i \in 1..n |-> PayloadBytes[((i - 1) % 3) + 1]]
Zeros(k) == [i \in 1..k |-> "0"]

\* +IPD,<n>:<payload>, the length text with pad leading zeros
Frame(n, pad) == Marker \o Zeros(pad) \o Itoa(n) \o <<":">> \o Payload(n)
Frames == {Frame(n, 0) : n \in 0..MaxPayload} \cup {Frame(1, MaxPad)}

\* a second frame, its payload unlike any byte of the first
LastFrame == Marker \o <<"1", ":", "z">>

\* what follows the first frame
Trailers == {<<>>, <<"x">>, <<"+">>, <<"+", "I", "x">>, LastFrame}

DemuxScripts ==
    {pre \o f \o post : pre \in Chunks, f \in Frames \cup {<<>>},
                        post \in Trailers}

GarbageBytes == {"7", "x"}

\* ------------------------------------------------------------ initial states

\* the serial link as xSerialPortInitMinimal(BAUD_RATE, BUFFER_LEN) leaves
\* it: part_001:71-89
SerialStarted ==
    /\ serial_fd = DEVICE_FD /\ fdOpen = TRUE
    /\ bufferLen = BUFFER_LEN
    /\ rxBuffer = <<>> /\ txBuffer = <<>>
    /\ rxPos = 0 /\ txPos = 0
    /\ run = 1
    /\ srx_pc = "top" /\ stx_pc = "top"
    /\ srx_c = garbage /\ stx_c = garbage

\* the transport right after part_000:107: queues open and empty, the
\* demultiplexer created, the status AT_READY
TransportStarted ==
    /\ proc = "running"
    /\ SerialStarted
    /\ esp8266_status = AT_READY
    /\ mqOpen = TRUE
    /\ stages = <<"serial", "queues", "thread">>
    /\ controlQ = <<>> /\ dataQ = <<>>
    /\ rxt_pc = "wait"
    /\ c = [k \in 0..(SCRATCH_LEN - 1) |-> garbage]
    /\ data_lenght = 0 /\ index = 0 /\ flush_n = 0 /\ flush_i = 0
    /\ pulled = <<>> /\ ctrlPut = <<>> /\ dataPut = <<>>

\* the caller between two calls of the transport, nothing called yet
CallerIdle ==
    /\ pc = "idle" /\ last = "none" /\ ret = 0
    /\ bytesToRecv = <<0, 0>> /\ bytes_read = 0 /\ pBuffer = <<>>
    /\ dataGot = <<>> /\ recvQ0 = <<>> /\ recvPut0 = 0 /\ recvGot0 = 0
    /\ bytesToSend = 0 /\ bytes_sent = 0 /\ command = <<>> /\ send_i = 0
    /\ final = FALSE /\ sendLen = 0 /\ rounds = <<>> /\ payInOrder = TRUE
    /\ sendCalls = 0
    /\ pHostName = <<>> /\ port = <<>> /\ at_cmd_response = <<>>
    /\ at_i = 0 /\ tcp_c = garbage /\ connCalls = 0 /\ handshakes = 0

InitDemux ==
    /\ garbage \in GarbageBytes
    /\ script \in DemuxScripts
    /\ wirePos = 0 /\ replies = <<>>
    /\ TransportStarted
    /\ CallerIdle

SerialRx == SerialRxTop \/ SerialRxRead \/ SerialRxCheck \/ SerialRxPush
SerialTx == SerialTxTop \/ SerialTxPop \/ SerialTxWrite
Demux ==
    \/ DemuxWait \/ DemuxLoop \/ DemuxGet0 \/ DemuxPut0 \/ DemuxGet
    \/ DemuxFlush \/ DemuxLen \/ DemuxPayGet \/ DemuxPayPut

NextDemux == SerialRx \/ Demux

\* the demultiplexer fed by the serial link's receive worker
SpecDemux == InitDemux /\ [][NextDemux]_vars

\* ------------------------------------------------------------ esp8266AT_recv

\* (int32_t) of a size_t given as halves: part_000:144
CastInt32(sz) == ToInt32(sz[1], sz[2])

\* a faulty variant of DataQRxFlags, for the sensitivity check of C9: a
\* descriptor that blocks
DataQRxBlocking == {"O_RDONLY"}

\* part_000:94: the flags dataQRx is opened with
DataQRxFlags == {"O_RDONLY", "O_NONBLOCK"}

\* mq_receive(3) returns at once on a descriptor opened O_NONBLOCK, and
\* waits for a message otherwise
MqReceiveReturns(q, flags) == "O_NONBLOCK" \in flags \/ q # <<>>

\* capacities: small ones, and 2^31, the first that does not fit an int32_t
RecvCaps == {<<0, n>> : n \in 0..MaxRecv} \cup {<<HALF \div 2, 0>>}

\* part_000:140-142: the call
RecvCall(cap) ==
    /\ proc = "running" /\ pc = "idle"
    /\ pc' = "recv_loop"
    /\ bytesToRecv' = cap
    /\ bytes_read' = 0
    /\ pBuffer' = <<>>
    /\ recvQ0' = dataQ
    /\ recvPut0' = Len(dataPut)
    /\ recvGot0' = Len(dataGot)
    /\ UNCHANGED <<proc, serialVars, deviceVars, esp8266_status, queueVars,
                   demuxVars, garbage, connVars, last, ret, dataGot, sendVars, histVars>>

\* part_000:154: return bytes_read; the call's locals are gone afterwards
RecvReturn ==
    /\ pc' = "idle" /\ last' = "recv"
    /\ ret' = bytes_read
    /\ dataGot' = dataGot \o pBuffer
    /\ bytes_read' = 0 /\ pBuffer' = <<>>
    /\ UNCHANGED bytesToRecv
    /\ recvQ0' = <<>> /\ recvPut0' = 0 /\ recvGot0' = 0
    /\ UNCHANGED dataQ

\* part_000:144-154: one turn of the loop: the test, one mq_receive, and
\* the return when either ends the loop
RecvStep ==
    /\ proc = "running" /\ pc = "recv_loop"
    /\ IF bytes_read < CastInt32(bytesToRecv)
       THEN /\ MqReceiveReturns(dataQ, DataQRxFlags)
            /\ IF dataQ # <<>>
               THEN /\ pBuffer' = Append(pBuffer, Head(dataQ))
                    /\ bytes_read' = bytes_read + 1
                    /\ dataQ' = Tail(dataQ)
                    /\ UNCHANGED <<pc, last, ret, dataGot, bytesToRecv,
                                   recvQ0, recvPut0, recvGot0>>
               ELSE RecvReturn
       ELSE RecvReturn
    /\ UNCHANGED <<proc, serialVars, deviceVars, esp8266_status, controlQ,
                   demuxVars, garbage, connVars, sendVars, histVars>>

Recv == (\E cap \in RecvCaps : RecvCall(cap)) \/ RecvStep

RecvScripts ==
    {pre \o Frame(n, 0) \o post : pre \in {<<>>, <<"+">>}, n \in 0..MaxPayload,
                                  post \in {<<>>, LastFrame}}

InitRecv ==
    /\ garbage \in GarbageBytes
    /\ script \in RecvScripts
    /\ wirePos = 0 /\ replies = <<>>
    /\ TransportStarted
    /\ CallerIdle

NextRecv == SerialRx \/ Demux \/ Recv

\* the caller receiving while the device delivers frames
SpecRecv == InitRecv /\ [][NextRecv]_vars

\* ------------------------------------------------------------ reference notions

ContainsMarker(s) ==
    \E k \in 1..Len(s) : k + 4 <= Len(s) /\ SubSeq(s, k, k + 4) = Marker

RECURSIVE LeadingDigits(_, _)
\* how many decimal digits s carries from position k on
LeadingDigits(s, k) ==
    IF k <= Len(s) /\ s[k] \in DigitChars THEN 1 + LeadingDigits(s, k + 1)
    ELSE 0

RECURSIVE DecimalValue(_)
DecimalValue(ds) ==
    IF ds = <<>> THEN 0
    ELSE DecimalValue(SubSeq(ds, 1, Len(ds) - 1)) * 10 + DigitVal(ds[Len(ds)])

\* s starts with a well-formed frame: the marker, 1 to 9 digits, ':' and at
\* least the declared number of bytes
FrameAtHead(s) ==
    /\ Len(s) >= 7 /\ SubSeq(s, 1, 5) = Marker
    /\ LET d == LeadingDigits(s, 6)
       IN  /\ d \in 1..9 /\ Len(s) >= 6 + d /\ s[6 + d] = ":"
           /\ Len(s) >= 6 + d + DecimalValue(SubSeq(s, 6, 5 + d))

RECURSIVE Intended(_, _, _, _)
\* the routing the specification describes: a frame's payload is data
\* wherever the frame starts, every other byte outside a header is control;
\* the result is <<control stream, data stream, number of frames>>
Intended(s, ct, dt, nf) ==
    IF s = <<>> THEN <<ct, dt, nf>>
    ELSE IF FrameAtHead(s)
         THEN LET d == LeadingDigits(s, 6)
                  n == DecimalValue(SubSeq(s, 6, 5 + d))
              IN  Intended(SubSeq(s, 7 + d + n, Len(s)), ct,
                           dt \o SubSeq(s, 7 + d, 6 + d + n), nf + 1)
         ELSE Intended(Tail(s), Append(ct, Head(s)), dt, nf)

IntendedControl(s) == Intended(s, <<>>, <<>>, 0)[1]
IntendedData(s) == Intended(s, <<>>, <<>>, 0)[2]
IntendedFrames(s) == Intended(s, <<>>, <<>>, 0)[3]

\* the scratch bytes c[from..to-1]
Scratch(from, to) == [k \in 1..(to - from) |-> c[from + k - 1]]

GetK == {"get1", "get2", "get3", "get4"}
HeldCount == CHOOSE k \in 0..4 : IF rxt_pc \in GetK THEN rxt_pc = "get" \o DigitSeq[k + 1] ELSE k = 0

\* the bytes of an unfinished prefix match
HeldPrefix == Scratch(0, HeldCount)

\* bytes pulled and not yet put: a held prefix, or bytes waiting for mq_send
PendingControl ==
    CASE rxt_pc = "put0" -> Scratch(0, 1)
      [] rxt_pc = "flush" -> Scratch(flush_i, flush_n)
      [] OTHER -> HeldPrefix
PendingData == IF rxt_pc = "pay_put" THEN Scratch(0, 1) ELSE <<>>

\* every byte the device delivers was pulled by the demultiplexer, which has
\* no put left to do
AllPulled ==
    /\ wirePos = Len(script) /\ Len(pulled) = Len(script)
    /\ rxt_pc \notin {"put0", "flush", "pay_put"}

\* ... and which holds no byte either: it is polling for the next one
Settled == AllPulled /\ rxt_pc \in {"loop", "get0"}

\* ------------------------------------------------------------ claims C1-C5

\* C1: for every stream that contains a well-formed +IPD frame, once the
\* worker has handled every byte, the data queue received exactly the
\* frames' payload bytes in order and the control queue every byte before
\* and after the frames, wherever a frame starts.
C1_FrameRoutedWhereverItStarts ==
    (Settled /\ IntendedFrames(script) > 0)
        => (dataPut = IntendedData(script) /\ ctrlPut = IntendedControl(script))

\* C2 as stated: for a stream without the marker, once every byte was
\* pulled, every byte is in the control queue in order and none in the data
\* queue.
C2_NoMarkerEveryByteInControl ==
    (AllPulled /\ ~ContainsMarker(script))
        => (ctrlPut = script /\ dataPut = <<>>)

\* C2 amended: for a stream without the marker, no byte goes to the data
\* queue, the control queue receives the stream's bytes in order, and once
\* every byte was pulled the only bytes not in the control queue are those
\* of a trailing partial marker (1 to 4 bytes), held until the next byte.
C2_NoMarkerControlOrHeld ==
    ~ContainsMarker(script)
        => /\ dataPut = <<>>
           /\ IsPrefix(ctrlPut, script)
           /\ AllPulled => /\ ctrlPut \o HeldPrefix = script
                           /\ HeldPrefix = Partial(HeldCount)

\* a stream without the marker that ends in the marker's first byte: every
\* byte was pulled, and the last one is held
C2_Witness ==
    /\ script = <<"+", "I", "P", "D", "x", "+">>
    /\ AllPulled /\ rxt_pc = "get1"
    /\ ctrlPut = <<"+", "I", "P", "D", "x">>

\* C3: a partial match of the marker (1 to 4 bytes) followed by a byte that
\* does not continue it: every flush step puts the next of the consumed
\* bytes in the control queue, and when the flush ends the control queue
\* ends with exactly the consumed bytes, prefix and mismatching byte, in
\* order.
C3_PartialMatchFlushed ==
    [][DemuxFlush =>
        LET n == flush_n
            m == Len(pulled)
        IN  /\ n \in 2..5 /\ flush_i < n /\ m >= n
            /\ SubSeq(pulled, m - n + 1, m - 1) = Partial(n - 1)
            /\ pulled[m] # Marker[n]
            /\ ctrlPut' = Append(ctrlPut, pulled[m - n + flush_i + 1])
            /\ rxt_pc' = (IF flush_i + 1 = n THEN "loop" ELSE "flush")
            /\ rxt_pc' = "loop" =>
                  SubSeq(ctrlPut', Len(ctrlPut') - n + 1, Len(ctrlPut'))
                      = SubSeq(pulled, m - n + 1, m)]_vars

C3_Witness ==
    /\ rxt_pc = "loop" /\ flush_n = 3 /\ flush_i = 3
    /\ ctrlPut = <<"+", "I", "x">>

RECURSIVE NonColon(_, _)
\* how many bytes other than ':' s carries from position k on
NonColon(s, k) ==
    IF k <= Len(s) /\ s[k] # ":" THEN 1 + NonColon(s, k + 1) ELSE 0

\* the length of the header p starts with: the marker, the length text (up
\* to 9 bytes) and its ':'; a header may be cut short by the end of p; 0
\* when p does not start with the marker
HeaderLen(p) ==
    IF Len(p) >= 5 /\ SubSeq(p, 1, 5) = Marker
    THEN LET d == Min(NonColon(p, 6), 9)
         IN  IF d < 9 /\ 5 + d < Len(p) THEN 6 + d ELSE 5 + d
    ELSE 0

RECURSIVE Accounts(_, _, _)
\* p splits, in order, into the bytes of cq, the bytes of dq and headers
Accounts(p, cq, dq) ==
    IF p = <<>> THEN cq = <<>> /\ dq = <<>>
    ELSE \/ cq # <<>> /\ Head(cq) = Head(p) /\ Accounts(Tail(p), Tail(cq), dq)
         \/ dq # <<>> /\ Head(dq) = Head(p) /\ Accounts(Tail(p), cq, Tail(dq))
         \/ HeaderLen(p) > 0
              /\ Accounts(SubSeq(p, HeaderLen(p) + 1, Len(p)), cq, dq)

\* C4: the pulled bytes are the delivered bytes in serial order, and they
\* split, in order, into the bytes put in the control queue, those put in
\* the data queue, recognized headers, and the few bytes (at most 5) the
\* worker holds: each byte outside a header is in exactly one queue, once.
C4_Conservation ==
    /\ IsPrefix(pulled, script)
    /\ Len(PendingControl) <= 5
    /\ Accounts(pulled, ctrlPut \o PendingControl, dataPut \o PendingData)

C4_Witness ==
    /\ Settled /\ Len(ctrlPut) >= 2 /\ Len(dataPut) >= 2

\* C5: the bytes recv returned so far are a prefix of the payloads of the
\* frames the device delivers, in order: never a control byte, never a
\* payload byte twice.
C5_RecvIsPrefixOfPayloads ==
    IsPrefix(dataGot, IntendedData(script))

\* ------------------------------------------------------------ claims C8-C9

\* min(capacity, k) for a capacity given as halves and k below HALF
MinCap(sz, k) == IF sz[1] > 0 THEN k ELSE Min(sz[2], k)
\* capacity >= n, likewise
CapAtLeast(sz, n) == sz[1] > 0 \/ sz[2] >= n

RecvReturns == RecvStep /\ pc' = "idle"

\* C8: recv called with k bytes in the data queue copies the oldest bytes of
\* the queue, in order, removes exactly those and returns their number n,
\* with 0 <= n <= capacity and n = min(capacity, k); the demultiplexer may
\* add bytes while the call runs, and n may count those too.
C8_RecvReturnsMinOfCapacityAndQueued ==
    [][RecvReturns =>
        LET n == ret'
            during == Len(dataPut) - recvPut0
        IN  /\ n = Len(pBuffer) /\ n >= 0 /\ CapAtLeast(bytesToRecv, n)
            /\ pBuffer = SubSeq(dataPut, recvGot0 + 1, recvGot0 + n)
            /\ dataGot' \o dataQ' = dataPut'
            /\ n >= MinCap(bytesToRecv, Len(recvQ0))
            /\ n <= MinCap(bytesToRecv, Len(recvQ0) + during)]_vars

\* C9: a running recv can always take its next step, whatever the other
\* threads do, and the step that finds the data queue empty returns at once
\* with the bytes copied so far: 0 when the queue was empty from the start.
C9_RecvNeverBlocks ==
    /\ [](pc = "recv_loop" => ENABLED RecvStep)
    /\ [][(RecvStep /\ dataQ = <<>>) =>
             /\ pc' = "idle" /\ last' = "recv"
             /\ ret' = Len(pBuffer)
             /\ UNCHANGED <<dataQ, controlQ>>]_vars

\* recv asked for 2 bytes returned 0 while the first payload byte was still
\* on its way to the data queue
C9_Witness ==
    /\ pc = "idle" /\ last = "recv" /\ ret = 0
    /\ bytesToRecv = <<0, 2>>
    /\ dataPut = <<>> /\ rxt_pc = "pay_put"

\* ------------------------------------------------------------ esp8266AT_send

\* part_000:161: char command[] = "AT+CIPSEND=2048", indexed from 0
CommandInit ==
    LET text == <<"A", "T", "+", "C", "I", "P", "S", "E", "N", "D", "=",
                  "2", "0", "4", "8", NUL>>
    IN  [k \in 0..15 |-> text[k + 1]]

\* snprintf(&buf[at], size, "%d", n): at most size - 1 bytes of the decimal
\* text, then NUL
Snprintf(buf, at, size, n) ==
    LET text == Itoa(n)
        m == Min(Len(text), size - 1)
    IN  [k \in DOMAIN buf |->
            IF k >= at /\ k < at + m THEN text[k - at + 1]
            ELSE IF k = at + m THEN NUL ELSE buf[k]]

RECURSIVE CString(_, _)
\* the bytes of buf from index k up to the first NUL
CString(buf, k) ==
    IF k \notin DOMAIN buf \/ buf[k] = NUL THEN <<>>
    ELSE <<buf[k]>> \o CString(buf, k + 1)

\* the caller's buffer: pBuffer[k] of a send
PBuf(k) == PayloadBytes[(k % 3) + 1]

\* part_001:125: xSerialPutChar accepts a byte; txPos is unsigned, and a
\* wrapped counter is above every bufferLen
TxAccepts == txPos >= 0 /\ txPos < bufferLen

\* a faulty variant of AcceptedOf, for the sensitivity check of C18: the
\* buffer counts as full one byte early
AcceptedOfShort(text) ==
    SubSeq(text, 1, Min(Len(text), bufferLen - txPos) - 1)

\* the bytes of text the transmit buffer takes when each is offered once,
\* without retry: part_000:166-170
AcceptedOf(text) ==
    IF txPos >= 0 THEN SubSeq(text, 1, Min(Len(text), bufferLen - txPos))
    ELSE <<>>

RECURSIVE SumN(_)
SumN(rs) == IF rs = <<>> THEN 0 ELSE Head(rs).n + SumN(Tail(rs))

SendLens ==
    {0, 1, 2} \cup {k * CHUNK + d : k \in 1..MaxChunks, d \in {0, 1}}

\* part_000:157-162: the call
SendCall(len) ==
    /\ proc = "running" /\ pc = "idle"
    /\ sendCalls < MaxSends
    /\ sendCalls' = sendCalls + 1
    /\ pc' = "send_head"
    /\ bytesToSend' = len /\ bytes_sent' = 0
    /\ command' = CommandInit
    /\ send_i' = 0 /\ final' = FALSE
    /\ sendLen' = len /\ rounds' = <<>> /\ payInOrder' = TRUE
    /\ UNCHANGED <<proc, serialVars, deviceVars, esp8266_status, queueVars,
                   demuxVars, garbage, connVars, last, ret, recvVars, histVars>>

\* part_000:164 and 183: another full round while bytesToSend / 2048 is not
\* zero, else the command is rewritten for the remainder
SendHead ==
    /\ proc = "running" /\ pc = "send_head"
    /\ IF bytesToSend \div CHUNK # 0
       THEN UNCHANGED <<command, final>>
       ELSE /\ command' = Snprintf(command, 11, 5, bytesToSend)
            /\ final' = TRUE
    /\ pc' = "send_cmd"
    /\ UNCHANGED <<proc, serialVars, deviceVars, esp8266_status, queueVars,
                   demuxVars, garbage, connVars, last, ret, recvVars, histVars,
                   bytesToSend, bytes_sent, send_i, sendLen, rounds,
                   payInOrder, sendCalls>>

\* a faulty variant of MorePayload, for the sensitivity check of C7: the
\* loop of the last round ends one byte early
MorePayloadShort(isFinal, idx, left) ==
    IF isFinal THEN left > 1 ELSE idx < CHUNK

\* part_000:173 and 192: the payload loop runs another turn
MorePayload(isFinal, idx, left) == IF isFinal THEN left > 0 ELSE idx < CHUNK

\* part_000:166-172 and 185-190: the command and CR LF, each byte offered
\* to xSerialPutChar once
SendCommand ==
    /\ proc = "running" /\ pc = "send_cmd"
    /\ LET text == CString(command, 0) \o <<CR, LF>>
           taken == AcceptedOf(text)
       IN  /\ txBuffer' = txBuffer \o taken
           /\ txPos' = txPos + Len(taken)
           /\ rounds' = Append(rounds, [cmd |-> CString(command, 0),
                                        lost |-> Len(text) - Len(taken),
                                        n |-> 0])
    /\ send_i' = 0
    /\ pc' = IF MorePayload(final, 0, bytesToSend) THEN "send_pay"
             ELSE "send_drain"
    /\ UNCHANGED <<proc, serial_fd, bufferLen, rxBuffer, rxPos, run, srx_pc,
                   srx_c, stx_pc, stx_c, deviceVars, esp8266_status, queueVars,
                   demuxVars, garbage, connVars, last, ret, recvVars, histVars,
                   bytesToSend, bytes_sent, command, final, sendLen,
                   payInOrder, sendCalls>>

\* part_000:173-177 and 192-195: one payload byte, offered until
\* xSerialPutChar accepts it
SendPayload ==
    /\ proc = "running" /\ pc = "send_pay"
    /\ TxAccepts
    /\ txBuffer' = Append(txBuffer, PBuf(bytes_sent))
    /\ txPos' = txPos + 1
    /\ bytes_sent' = bytes_sent + 1
    /\ bytesToSend' = bytesToSend - 1
    /\ send_i' = IF final THEN send_i ELSE send_i + 1
    /\ rounds' = [rounds EXCEPT ![Len(rounds)].n = @ + 1]
    /\ payInOrder' = (payInOrder /\ PBuf(bytes_sent) = PBuf(SumN(rounds)))
    /\ pc' = IF MorePayload(final, send_i', bytesToSend') THEN "send_pay"
             ELSE "send_drain"
    /\ UNCHANGED <<proc, serial_fd, bufferLen, rxBuffer, rxPos, run, srx_pc,
                   srx_c, stx_pc, stx_c, deviceVars, esp8266_status, queueVars,
                   demuxVars, garbage, connVars, last, ret, recvVars, histVars,
                   command, final, sendLen, sendCalls>>

\* a faulty variant of Received, for the sensitivity check of C36: one
\* call empties the queue
ReceivedAll(q) == <<>>

\* part_000:178 and 199: what mq_receive(controlQRx, &c, 1, NULL) leaves
\* in the queue: all but the oldest message
Received(q) == Tail(q)

\* part_000:180 and 199-201: while (mq_receive(controlQRx, ...) > 0); then
\* the next round, or return bytes_sent
SendDrain ==
    /\ proc = "running" /\ pc = "send_drain"
    /\ IF controlQ # <<>>
       THEN /\ controlQ' = Received(controlQ)
            /\ UNCHANGED <<pc, last, ret>>
       ELSE /\ UNCHANGED controlQ
            /\ IF final
               THEN pc' = "idle" /\ last' = "send" /\ ret' = bytes_sent
               ELSE pc' = "send_head" /\ UNCHANGED <<last, ret>>
    /\ UNCHANGED <<proc, serialVars, deviceVars, esp8266_status, dataQ,
                   demuxVars, garbage, connVars, recvVars, histVars, sendVars>>

Send ==
    \/ \E len \in SendLens : SendCall(len)
    \/ SendHead \/ SendCommand \/ SendPayload \/ SendDrain

\* the transport connected, the device silent: part_000:303
InitSend ==
    /\ garbage = "x"
    /\ script = <<>> /\ wirePos = 0 /\ replies = <<>>
    /\ proc = "running"
    /\ SerialStarted
    /\ esp8266_status = CONNECTED
    /\ mqOpen = TRUE
    /\ stages = <<"serial", "queues", "thread", "handshake", "tcp">>
    /\ controlQ = <<>> /\ dataQ = <<>>
    /\ rxt_pc = "loop"
    /\ c = [k \in 0..(SCRATCH_LEN - 1) |-> garbage]
    /\ data_lenght = 0 /\ index = 0 /\ flush_n = 0 /\ flush_i = 0
    /\ pulled = <<>> /\ ctrlPut = <<>> /\ dataPut = <<>>
    /\ CallerIdle

NextSend == SerialTx \/ Send

\* the caller sending while the transmit worker drains the buffer
SpecSend == InitSend /\ [][NextSend]_vars

\* ------------------------------------------------------------ esp8266AT_Connect

\* the serial link's variables but the transmit buffer
serialRest == <<serial_fd, bufferLen, rxBuffer, rxPos, run, srx_pc, srx_c,
                stx_pc, stx_c>>
connLocals == <<at_cmd_response, at_i, tcp_c>>
connArgs == <<pHostName, port, connCalls, handshakes, lifeVars>>
otherCalls == <<recvVars, sendVars>>

\* a run of xSerialPutChar calls, each byte offered once
PutChars(text) ==
    /\ txBuffer' = txBuffer \o AcceptedOf(text)
    /\ txPos' = txPos + Len(AcceptedOf(text))

\* part_000:209-213
AteCmd == <<"A", "T", "E", "0", CR>>
\* part_000:243-255
CloseCmd == <<"A", "T", "+", "C", "I", "P", "C", "L", "O", "S", "E", CR, LF>>
\* part_000:261-294
StartCmd(host, prt) ==
    <<"A", "T", "+", "C", "I", "P", "S", "T", "A", "R", "T", "=", "\"", "T",
      "C", "P", "\"", ",", "\"">> \o host \o <<"\"", ",">> \o prt \o <<CR, LF>>
\* part_000:229: the reply check_AT compares with
OkReply == <<CR, LF, "O", "K", CR, LF>>

\* the modem's other answers, cut to their first byte where the code looks
\* at no more than that: part_000:297-299
ErrorReply == <<CR, LF, "E", "R", "R", "O", "R", CR, LF>>
NoLinkReply == <<"E">>
ConnectReply == <<"C">>
RefusedReply == <<"E">>
\* a reply that stops before the sixth byte
ShortReply == <<CR, LF, "O">>
\* the answers to ATE0, AT+CIPCLOSE and AT+CIPSTART: a connection made, with
\* noise and data arriving on it, one refused, a modem not ready, a modem
\* not ready at the first call that makes the connection at the second, a
\* modem that answers with less than check_AT waits for, and one that is
\* silent
ModemReplies ==
    { <<OkReply, NoLinkReply, ConnectReply \o <<"+", "x">> \o LastFrame>>,
      <<OkReply, NoLinkReply, RefusedReply>>,
      <<ErrorReply>>,
      <<ErrorReply, OkReply, NoLinkReply, ConnectReply>>,
      <<ShortReply>>,
      <<>> }

Hosts == {<<"h">>}
Ports == {<<"1">>}
\* values the uninitialized local c of start_TCP may hold: part_000:240
StackBytes == GarbageBytes \cup {"C"}

\* a faulty variant of ReturnsAtOnce, for the sensitivity check of C10: the
\* wrong status is compared with
ReturnsAtOnceWhenReady(status) == status = AT_READY

\* part_000:80: if (esp8266_status == CONNECTED)
ReturnsAtOnce(status) == status = CONNECTED

ConnectReturns(code) == pc' = "idle" /\ last' = "connect" /\ ret' = code

\* part_000:73-82: the call, and the return at once when CONNECTED
ConnectCall(host, prt) ==
    /\ proc = "running" /\ pc = "idle"
    /\ connCalls < MaxConnects
    /\ connCalls' = connCalls + 1
    /\ pHostName' = host /\ port' = prt
    /\ IF ReturnsAtOnce(esp8266_status)
       THEN ConnectReturns(ESP8266_TRANSPORT_SUCCESS)
       ELSE pc' = "conn_serial" /\ UNCHANGED <<last, ret>>
    /\ UNCHANGED <<proc, serialVars, deviceVars, esp8266_status, queueVars,
                   demuxVars, garbage, otherCalls, connLocals, handshakes,
                   lifeVars, histVars>>

\* part_001:71: what open() returns: a descriptor, or -1
OpenResults == {DEVICE_FD, OPEN_FAILED}

\* part_001:73: if (!serial_fd) is the one test before the buffers are
\* allocated and the workers created
InitGoesOn(fd) == fd # 0

\* part_001:78-81: what a buffer just allocated holds below a counter that
\* init does not set: memory nobody wrote
Fresh(n) == [i \in 1..n |-> garbage]

\* a faulty variant of SerialStageDue, for the sensitivity check of C23:
\* the serial link is initialized again after a protocol failure
SerialStageDueOnError(status) == status \in {AT_UNINITIALIZED, ERROR}

\* part_000:84: if (esp8266_status == AT_UNINITIALIZED)
SerialStageDue(status) == status = AT_UNINITIALIZED

\* part_000:84-87 and part_001:68-92: xSerialPortInitMinimal; exit(-1)
\* when serial_fd is 0
ConnectSerial ==
    /\ proc = "running" /\ pc = "conn_serial"
    /\ IF SerialStageDue(esp8266_status)
       THEN \E fd \in OpenResults :
               /\ serial_fd' = fd
               /\ fdOpen' = (fd = DEVICE_FD)
               /\ stages' = Append(stages, "serial")
               /\ IF InitGoesOn(fd)
                  THEN /\ bufferLen' = BUFFER_LEN
                       /\ rxBuffer' = Fresh(rxPos)
                       /\ txBuffer' = Fresh(txPos)
                       /\ run' = 1
                       /\ srx_pc' = "top" /\ stx_pc' = "top"
                       /\ esp8266_status' = MQUEUE_UNINITIALIZED
                       /\ pc' = "conn_mq"
                       /\ UNCHANGED proc
                  ELSE /\ proc' = "exited"
                       /\ UNCHANGED <<bufferLen, rxBuffer, txBuffer, run,
                                      srx_pc, stx_pc, esp8266_status, pc>>
               /\ UNCHANGED <<rxPos, txPos, srx_c, stx_c>>
       ELSE /\ pc' = "conn_mq"
            /\ UNCHANGED <<proc, serialVars, esp8266_status, stages, fdOpen>>
    /\ UNCHANGED <<deviceVars, queueVars, demuxVars, garbage, last, ret,
                   otherCalls, pHostName, port, connLocals, connCalls,
                   handshakes, mqOpen, histVars>>

\* part_000:89-101: the four mq_open calls; exit(errno) when one fails
ConnectQueues ==
    /\ proc = "running" /\ pc = "conn_mq"
    /\ IF esp8266_status = MQUEUE_UNINITIALIZED
       THEN \E opened \in BOOLEAN :
               IF opened
               THEN /\ esp8266_status' = RX_THREAD_UNINITIALIZED
                    /\ mqOpen' = TRUE
                    /\ stages' = Append(stages, "queues")
                    /\ pc' = "conn_thread"
                    /\ UNCHANGED proc
               ELSE /\ proc' = "exited"
                    /\ stages' = Append(stages, "queues_failed")
                    /\ UNCHANGED <<esp8266_status, pc, mqOpen>>
       ELSE /\ pc' = "conn_thread"
            /\ UNCHANGED <<proc, esp8266_status, mqOpen, stages>>
    /\ UNCHANGED <<serialVars, deviceVars, queueVars, demuxVars, garbage, last,
                   ret, otherCalls, pHostName, port, connLocals, connCalls,
                   handshakes, fdOpen, histVars>>

\* a faulty variant of ThreadStageDue, for the sensitivity check of C29: a
\* worker is created by every call that gets this far
ThreadStageDueAlways(status) == status >= RX_THREAD_UNINITIALIZED

\* part_000:103: if (esp8266_status == RX_THREAD_UNINITIALIZED)
ThreadStageDue(status) == status = RX_THREAD_UNINITIALIZED

\* part_000:103-106: pthread_create of the demultiplexer
ConnectThread ==
    /\ proc = "running" /\ pc = "conn_thread"
    /\ IF ThreadStageDue(esp8266_status)
       THEN \E created \in BOOLEAN :
               /\ stages' = Append(stages, IF created THEN "thread"
                                            ELSE "thread_failed")
               /\ IF created
                  THEN /\ rxt_pc' = "wait"
                       /\ pc' = "conn_ready"
                       /\ UNCHANGED <<last, ret>>
                  ELSE /\ ConnectReturns(ESP8266_TRANSPORT_CONNECT_FAILURE)
                       /\ UNCHANGED rxt_pc
       ELSE /\ pc' = "conn_ready"
            /\ UNCHANGED <<rxt_pc, last, ret, stages>>
    /\ UNCHANGED <<proc, serialVars, deviceVars, esp8266_status, queueVars,
                   c, data_lenght, index, flush_n, flush_i, garbage,
                   otherCalls, pHostName, port, connLocals, connCalls,
                   handshakes, mqOpen, fdOpen, histVars>>

\* a faulty variant of RunsExchange, for the sensitivity check of C22: the
\* handshake is run in state AT_READY alone
RunsExchangeWhenReady(status) == status = AT_READY

\* part_000:110: if (esp8266_status > RX_THREAD_UNINITIALIZED)
RunsExchange(status) == status > RX_THREAD_UNINITIALIZED

\* part_000:107-110: the status becomes AT_READY, and the handshake starts
\* when the status is past RX_THREAD_UNINITIALIZED
ConnectReady ==
    /\ proc = "running" /\ pc = "conn_ready"
    /\ esp8266_status' = IF esp8266_status = RX_THREAD_UNINITIALIZED
                         THEN AT_READY ELSE esp8266_status
    /\ IF RunsExchange(esp8266_status')
       THEN pc' = "at_cmd" /\ UNCHANGED <<last, ret>>
       ELSE ConnectReturns(ESP8266_TRANSPORT_CONNECT_FAILURE)
    /\ UNCHANGED <<proc, serialVars, deviceVars, queueVars, demuxVars, garbage,
                   otherCalls, connVars, histVars>>

\* part_000:206-213: check_AT sends ATE0 and CR
CheckATCommand ==
    /\ proc = "running" /\ pc = "at_cmd"
    /\ at_cmd_response' = [k \in 0..(AT_REPLY_LEN - 1) |-> NUL]
    /\ PutChars(AteCmd)
    /\ handshakes' = handshakes + 1
    /\ stages' = Append(stages, "handshake")
    /\ pc' = "at_clear"
    /\ UNCHANGED <<proc, serialRest, deviceVars, esp8266_status, queueVars,
                   demuxVars, garbage, last, ret, otherCalls, pHostName, port,
                   connCalls, at_i, tcp_c, mqOpen, fdOpen, histVars>>

\* part_000:217-220: the control queue is emptied into at_cmd_response[0],
\* then the line feed completes the command
CheckATClear ==
    /\ proc = "running" /\ pc = "at_clear"
    /\ IF controlQ # <<>>
       THEN /\ at_cmd_response' = [at_cmd_response EXCEPT ![0] = Head(controlQ)]
            /\ controlQ' = Tail(controlQ)
            /\ UNCHANGED <<txBuffer, txPos, pc, at_i>>
       ELSE /\ PutChars(<<LF>>)
            /\ at_i' = 0
            /\ pc' = "at_reply"
            /\ UNCHANGED <<at_cmd_response, controlQ>>
    /\ UNCHANGED <<proc, serialRest, deviceVars, esp8266_status, dataQ,
                   demuxVars, garbage, last, ret, otherCalls, connArgs, tcp_c,
                   histVars>>

\* a faulty variant of ReplyMatches, for the sensitivity check of C11: any
\* reply that is not empty passes
ReplyNotEmpty(resp) == CString(resp, 0) # <<>>

\* part_000:229: strcmp(at_cmd_response, "\r\nOK\r\n") == 0
ReplyMatches(resp) == CString(resp, 0) = OkReply

\* part_000:223-235: the next of the six reply bytes, tried until the control
\* queue has one; after the sixth, the comparison with "\r\nOK\r\n"; and
\* part_000:111-114, the return when it differs
CheckATReply ==
    /\ proc = "running" /\ pc = "at_reply"
    /\ controlQ # <<>>
    /\ at_cmd_response' = [at_cmd_response EXCEPT ![at_i] = Head(controlQ)]
    /\ controlQ' = Tail(controlQ)
    /\ at_i' = at_i + 1
    /\ IF at_i' < AT_REPLY_LEN - 1
       THEN UNCHANGED <<esp8266_status, pc, last, ret>>
       ELSE IF ReplyMatches(at_cmd_response')
            THEN /\ esp8266_status' = AT_READY
                 /\ pc' = "tcp_close" /\ UNCHANGED <<last, ret>>
            ELSE /\ esp8266_status' = ERROR
                 /\ ConnectReturns(ESP8266_TRANSPORT_CONNECT_FAILURE)
    /\ UNCHANGED <<proc, serialVars, deviceVars, dataQ, demuxVars, garbage,
                   otherCalls, connArgs, tcp_c, histVars>>

\* part_000:238-255: start_TCP sends AT+CIPCLOSE; its local c holds what the
\* stack held
StartTCPClose ==
    /\ proc = "running" /\ pc = "tcp_close"
    /\ tcp_c' \in StackBytes
    /\ PutChars(CloseCmd)
    /\ pc' = "tcp_clear"
    /\ UNCHANGED <<proc, serialRest, deviceVars, esp8266_status, queueVars,
                   demuxVars, garbage, last, ret, otherCalls, connArgs,
                   at_cmd_response, at_i, histVars>>

\* part_000:258-294: the control queue is emptied into c, then AT+CIPSTART
\* is sent with the host and the port
StartTCPClear ==
    /\ proc = "running" /\ pc = "tcp_clear"
    /\ IF controlQ # <<>>
       THEN /\ tcp_c' = Head(controlQ)
            /\ controlQ' = Tail(controlQ)
            /\ UNCHANGED <<txBuffer, txPos, pc, stages>>
       ELSE /\ PutChars(StartCmd(pHostName, port))
            /\ stages' = Append(stages, "tcp")
            /\ pc' = "tcp_reply"
            /\ UNCHANGED <<tcp_c, controlQ>>
    /\ UNCHANGED <<proc, serialRest, deviceVars, esp8266_status, dataQ,
                   demuxVars, garbage, last, ret, otherCalls, pHostName, port,
                   connCalls, handshakes, mqOpen, fdOpen, at_cmd_response,
                   at_i, histVars>>

\* a faulty variant of IsSuccessMarker, for the sensitivity check of C12:
\* the test is inverted
IsNotSuccessMarker(ch) == ch # "C"

\* part_000:299: c == 'C'
IsSuccessMarker(ch) == ch = "C"

\* part_000:297-304: one mq_receive into c, whose result is not looked at,
\* and the test of c
StartTCPReply ==
    /\ proc = "running" /\ pc = "tcp_reply"
    /\ IF controlQ # <<>>
       THEN tcp_c' = Head(controlQ) /\ controlQ' = Tail(controlQ)
       ELSE UNCHANGED <<tcp_c, controlQ>>
    /\ esp8266_status' = IF IsSuccessMarker(tcp_c') THEN CONNECTED ELSE ERROR
    /\ pc' = "tcp_drain"
    /\ UNCHANGED <<proc, serialVars, deviceVars, dataQ, demuxVars, garbage,
                   last, ret, otherCalls, connArgs, at_cmd_response, at_i,
                   histVars>>

\* a Connect that returns success whatever start_TCP left
ConnectResultSuccess(status) == ESP8266_TRANSPORT_SUCCESS

\* part_000:117-121: if (esp8266_status == ERROR) return
\* ESP8266_TRANSPORT_CONNECT_FAILURE; return ESP8266_TRANSPORT_SUCCESS
ConnectResult(status) ==
    IF status = ERROR THEN ESP8266_TRANSPORT_CONNECT_FAILURE
    ELSE ESP8266_TRANSPORT_SUCCESS

\* part_000:306-307 and 116-121: the control queue is emptied, and Connect
\* returns by the status
StartTCPDrain ==
    /\ proc = "running" /\ pc = "tcp_drain"
    /\ IF controlQ # <<>>
       THEN /\ tcp_c' = Head(controlQ)
            /\ controlQ' = Tail(controlQ)
            /\ UNCHANGED <<pc, last, ret>>
       ELSE /\ ConnectReturns(ConnectResult(esp8266_status))
            /\ UNCHANGED <<tcp_c, controlQ>>
    /\ UNCHANGED <<proc, serialVars, deviceVars, esp8266_status, dataQ,
                   demuxVars, garbage, otherCalls, connArgs, at_cmd_response,
                   at_i, histVars>>

Connect ==
    \/ \E host \in Hosts, prt \in Ports : ConnectCall(host, prt)
    \/ ConnectSerial \/ ConnectQueues \/ ConnectThread \/ ConnectReady
    \/ CheckATCommand \/ CheckATClear \/ CheckATReply
    \/ StartTCPClose \/ StartTCPClear \/ StartTCPReply \/ StartTCPDrain

\* the state after construction: part_000:44-66 and part_001:54-63
Init ==
    /\ garbage = "x"
    /\ script = <<>> /\ wirePos = 0
    /\ replies \in ModemReplies
    /\ proc = "running"
    /\ serial_fd = 0 /\ bufferLen = 0 /\ fdOpen = FALSE
    /\ mqOpen = FALSE /\ stages = <<>>
    /\ rxBuffer = <<>> /\ txBuffer = <<>>
    /\ rxPos = 0 /\ txPos = 0
    /\ run = 0
    /\ srx_pc = "unborn" /\ stx_pc = "unborn"
    /\ srx_c = garbage /\ stx_c = garbage
    /\ esp8266_status = AT_UNINITIALIZED
    /\ controlQ = <<>> /\ dataQ = <<>>
    /\ rxt_pc = "unborn"
    /\ c = [k \in 0..(SCRATCH_LEN - 1) |-> garbage]
    /\ data_lenght = 0 /\ index = 0 /\ flush_n = 0 /\ flush_i = 0
    /\ pulled = <<>> /\ ctrlPut = <<>> /\ dataPut = <<>>
    /\ CallerIdle

Next == SerialRx \/ SerialTx \/ Demux \/ Connect

\* the transport from construction: Connect, the serial link's workers and
\* the demultiplexer
Spec == Init /\ [][Next]_vars

\* ------------------------------------------------------------ claim C10

ConnectCalled == \E host \in Hosts, prt \in Ports : ConnectCall(host, prt)

\* C10: a call of Connect made when the status is CONNECTED returns success
\* in that step and changes nothing else: no byte goes to the serial link,
\* the control queue is not read, the serial link is not initialized again
\* (its descriptor, buffers and workers stay as they are), the queues are
\* not opened again, no demultiplexer is started, no handshake is run, and
\* the status stays CONNECTED.
C10_ConnectIdempotentWhenConnected ==
    [][(ConnectCalled /\ esp8266_status = CONNECTED) =>
          /\ pc' = "idle" /\ last' = "connect"
          /\ ret' = ESP8266_TRANSPORT_SUCCESS
          /\ esp8266_status' = CONNECTED
          /\ handshakes' = handshakes
          /\ UNCHANGED <<proc, serialVars, deviceVars, queueVars, demuxVars,
                         histVars, connLocals>>]_vars

\* the second call of Connect returned success after one handshake only
C10_Witness ==
    /\ pc = "idle" /\ last = "connect" /\ ret = ESP8266_TRANSPORT_SUCCESS
    /\ esp8266_status = CONNECTED
    /\ connCalls = 2 /\ handshakes = 1

\* ------------------------------------------------------------ claims C6-C7

\* the N of a round's command "AT+CIPSEND=<N>"
RoundN(r) == DecimalValue(SubSeq(r.cmd, 12, Len(r.cmd)))

\* the command of every round is AT+CIPSEND= and a decimal number
RoundsWellFormed ==
    \A k \in 1..Len(rounds) :
        LET text == rounds[k].cmd
        IN  /\ Len(text) >= 12
            /\ SubSeq(text, 1, 11) = SubSeq(CString(CommandInit, 0), 1, 11)
            /\ LeadingDigits(text, 12) = Len(text) - 11

SendReturned == pc = "idle" /\ last = "send"

CeilDiv(a, b) == (a + b - 1) \div b

\* C6: when a send of length L >= 1 has returned, it made ceil(L/2048)
\* command rounds (one, with N = L, for L <= 2048), the last of them sized
\* L mod 2048, or 2048 when 2048 divides L, none with N = 0, and the payload
\* bytes streamed over all rounds number L.
C6_ChunkingRounds ==
    (SendReturned /\ sendLen >= 1)
        => /\ RoundsWellFormed
           /\ Len(rounds) = CeilDiv(sendLen, CHUNK)
           /\ RoundN(rounds[Len(rounds)]) =
                 (IF sendLen % CHUNK = 0 THEN CHUNK ELSE sendLen % CHUNK)
           /\ \A k \in 1..Len(rounds) : RoundN(rounds[k]) # 0
           /\ SumN(rounds) = sendLen

\* C7: send(buffer, L) returns L; every payload byte the serial link accepts
\* is the next byte of the buffer, so that the accepted payload is
\* buffer[0..L-1], each byte once and in order; a round streams exactly the
\* N payload bytes its command announces; and a payload byte goes on being
\* offered until the serial link accepts it: the call does not move past it
\* while the transmit buffer is full.
C7_SendStreamsBufferInOrder ==
    /\ [](/\ payInOrder
          /\ pc \in {"send_head", "send_cmd", "send_pay", "send_drain"}
                => /\ bytes_sent = SumN(rounds)
                   /\ bytes_sent + bytesToSend = sendLen
          /\ RoundsWellFormed
          /\ \A k \in 1..Len(rounds) :
                IF k < Len(rounds) \/ pc \in {"send_drain", "idle"}
                THEN rounds[k].n = RoundN(rounds[k])
                ELSE rounds[k].n <= RoundN(rounds[k])
          /\ SendReturned => (ret = sendLen /\ SumN(rounds) = sendLen))
    /\ [](pc = "send_pay" => (ENABLED SendPayload <=> TxAccepts))
    /\ [][SendPayload =>
             /\ txBuffer' = Append(txBuffer, PBuf(SumN(rounds)))
             /\ SumN(rounds') = SumN(rounds) + 1]_vars

\* a send of one byte more than the ceiling returned, after two rounds
C7_Witness ==
    /\ SendReturned /\ sendLen = CHUNK + 1 /\ ret = CHUNK + 1
    /\ Len(rounds) = 2 /\ rounds[1].n = CHUNK /\ rounds[2].n = 1

\* ------------------------------------------------------------ claims C11-C12

\* the step of check_AT that reads the sixth reply byte
HandshakeEnds == CheckATReply /\ at_i' = AT_REPLY_LEN - 1

\* the six bytes check_AT read, after that step
ReplyRead == [k \in 1..(AT_REPLY_LEN - 1) |-> at_cmd_response'[k - 1]]

\* C11: when check_AT has read its six reply bytes, if they are exactly
\* CR LF O K CR LF the status becomes AT_READY and Connect goes on to
\* start_TCP; for any other six bytes the status becomes ERROR and Connect
\* returns connect_failure in that step, so that no byte of AT+CIPCLOSE or
\* AT+CIPSTART is offered to the serial link.
C11_HandshakeReplyDecides ==
    [][HandshakeEnds =>
          IF ReplyRead = <<CR, LF, "O", "K", CR, LF>>
          THEN /\ esp8266_status' = AT_READY
               /\ pc' = "tcp_close"
          ELSE /\ esp8266_status' = ERROR
               /\ pc' = "idle" /\ last' = "connect"
               /\ ret' = ESP8266_TRANSPORT_CONNECT_FAILURE
               /\ UNCHANGED <<txBuffer, txPos>>]_vars

\* Connect returned connect_failure after the modem answered ATE0 with
\* ERROR: the six bytes read are CR LF E R R O
C11_Witness ==
    /\ pc = "idle" /\ last = "connect"
    /\ ret = ESP8266_TRANSPORT_CONNECT_FAILURE
    /\ esp8266_status = ERROR /\ handshakes = 1 /\ at_i = AT_REPLY_LEN - 1
    /\ CString(at_cmd_response, 0) = SubSeq(ErrorReply, 1, AT_REPLY_LEN - 1)

\* C12: when the mq_receive that follows AT+CIPSTART removes a byte from the
\* control queue, the status becomes CONNECTED if that byte is 'C' and ERROR
\* if it is any other byte; the status then stays as it is until Connect
\* returns, with success when it is CONNECTED and connect_failure when it is
\* ERROR.
C12_FirstByteDecides ==
    /\ [][(StartTCPReply /\ controlQ # <<>>) =>
             esp8266_status' = (IF Head(controlQ) = "C" THEN CONNECTED
                                ELSE ERROR)]_vars
    /\ [][StartTCPDrain =>
             /\ esp8266_status' = esp8266_status
             /\ esp8266_status \in {CONNECTED, ERROR}
             /\ pc' = "idle" =>
                   ret' = (IF esp8266_status = CONNECTED
                           THEN ESP8266_TRANSPORT_SUCCESS
                           ELSE ESP8266_TRANSPORT_CONNECT_FAILURE)]_vars

\* Connect returned connect_failure after the byte read was the 'E' of a
\* refused connection
C12_Witness ==
    /\ pc = "idle" /\ last = "connect"
    /\ ret = ESP8266_TRANSPORT_CONNECT_FAILURE
    /\ esp8266_status = ERROR /\ tcp_c = "E"
    /\ replies = <<>> /\ handshakes = 1
    /\ script = OkReply \o NoLinkReply \o RefusedReply

\* ------------------------------------------------------------ claim C17

SerialWorkersStarted == srx_pc # "unborn" \/ stx_pc # "unborn"

\* C17: when the serial device cannot be opened, xSerialPortInitMinimal is
\* fatal: the process does not go on, no buffer is allocated and no worker
\* is started; the two workers exist only if the device was opened.
C17_OpenFailureIsFatal ==
    /\ serial_fd = OPEN_FAILED =>
          /\ proc = "exited"
          /\ bufferLen = 0
          /\ ~SerialWorkersStarted
    /\ SerialWorkersStarted => serial_fd = DEVICE_FD

\* ------------------------------------------------------------ claim C13

\* the times a stage is in the history
Times(stage) == Cardinality({i \in 1..Len(stages) : stages[i] = stage})
\* every entry of one stage comes after an entry of another
ComesAfter(stage, before) ==
    \A i \in 1..Len(stages) :
       stages[i] = stage => \E j \in 1..(i - 1) : stages[j] = before
LastStage == IF stages = <<>> THEN "none" ELSE stages[Len(stages)]

\* the stages run in order, the initialization stages once, and a failure
\* that the code sees ends the call
StagesInOrderOnce ==
    /\ ComesAfter("queues", "serial") /\ ComesAfter("queues_failed", "serial")
    /\ ComesAfter("thread", "queues") /\ ComesAfter("thread_failed", "queues")
    /\ ComesAfter("handshake", "thread")
    /\ \A i \in 1..Len(stages) :
          stages[i] = "tcp" => i > 1 /\ stages[i - 1] = "handshake"
    /\ Times("serial") <= 1 /\ Times("queues") <= 1 /\ Times("thread") <= 1
    /\ Times("queues_failed") > 0 =>
          LastStage = "queues_failed" /\ proc = "exited"
    /\ (LastStage \in {"thread_failed", "handshake"} /\ pc = "idle") =>
          last = "connect" /\ ret = ESP8266_TRANSPORT_CONNECT_FAILURE

\* C13: in esp8266AT_Connect the serial link is initialized before the
\* queues are opened, the queues before the demultiplexer is started, the
\* demultiplexer before the first handshake byte is sent, and the TCP-open
\* command is sent only after the handshake of the same call; each of the
\* three initialization stages runs once however many times Connect is
\* called, and a stage that fails is the last stage run: Connect returns
\* failure (or the process ends) without running a later one.
C13_StagesInOrderOnceAndShortCircuit ==
    /\ StagesInOrderOnce
    /\ serial_fd = OPEN_FAILED => LastStage = "serial"

\* ------------------------------------------------------------ claim C15

\* the steps of a Connect call after the call itself
ConnectSteps ==
    \/ ConnectSerial \/ ConnectQueues \/ ConnectThread \/ ConnectReady
    \/ CheckATCommand \/ CheckATClear \/ CheckATReply
    \/ StartTCPClose \/ StartTCPClear \/ StartTCPReply \/ StartTCPDrain

\* every thread that can take a step is scheduled in the end
Fairness ==
    /\ WF_vars(SerialRx) /\ WF_vars(SerialTx) /\ WF_vars(Demux)
    /\ WF_vars(ConnectSteps)

SpecFair == Spec /\ Fairness

\* C15: a call of esp8266AT_Connect that has the serial device open
\* returns, whatever the modem sends; in particular when the modem sends
\* nothing, or less than six bytes, after ATE0.
C15_ConnectReturns == (pc # "idle" /\ fdOpen) ~> (pc = "idle" \/ proc = "exited")

\* ------------------------------------------------------------ claim C18

\* the command a send offers to xSerialPutChar byte by byte
OfferedCommand == CString(command, 0) \o <<CR, LF>>

\* C18: xSerialPutChar appends the byte at the tail of the transmit buffer
\* and raises the occupancy by one when the buffer holds less than
\* bufferLen bytes; it rejects the byte and leaves buffer and occupancy as
\* they are when the buffer is full; it never waits for room: the bytes of
\* a command are offered at any occupancy.
C18_PutCharAcceptsOrRejects ==
    /\ [][SendPayload =>
             /\ txPos < bufferLen
             /\ txBuffer' = Append(txBuffer, PBuf(bytes_sent))
             /\ txPos' = txPos + 1]_vars
    /\ [][SendCommand =>
             LET k == Min(Len(OfferedCommand), bufferLen - txPos)
             IN  /\ txBuffer' = txBuffer \o SubSeq(OfferedCommand, 1, k)
                 /\ txPos' = txPos + k
                 /\ txPos' <= bufferLen
                 /\ txPos = bufferLen => UNCHANGED <<txBuffer, txPos>>]_vars
    /\ [](pc = "send_cmd" => ENABLED SendCommand)

\* a command was offered to a full buffer and lost a byte, after payload
\* bytes were accepted
C18_Witness ==
    /\ Len(rounds) = 2
    /\ rounds[1].n > 0
    /\ rounds[2].lost > 0
    /\ txPos = bufferLen
    /\ pc = "send_pay"

\* ------------------------------------------------------------ claim C19

\* a step of the demultiplexer that calls xSerialGetChar
GetCharStep == DemuxGet0 \/ DemuxGet \/ DemuxLen \/ DemuxPayGet

\* what the receive worker has pushed so far: the bytes read from the
\* device, but the one it still holds
PushedSoFar ==
    SubSeq(script, 1, IF srx_pc \in {"check", "push"} THEN wirePos - 1
                      ELSE wirePos)

\* C19: xSerialGetChar on a receive buffer that is not empty returns the
\* oldest byte, removes that byte alone and keeps the others in order; on an
\* empty buffer it reports none available and changes nothing; it never
\* waits for data: the first try of the demultiplexer's loop goes on
\* whatever the buffer holds.
C19_GetCharPopsOldest ==
    /\ [][(GetCharStep /\ rxPos # 0) =>
             /\ rxBuffer = <<pulled'[Len(pulled')]>> \o rxBuffer'
             /\ pulled' = Append(pulled, Head(rxBuffer))
             /\ rxPos' = rxPos - 1]_vars
    /\ [][(DemuxGet0 /\ rxPos # 0) => c'[0] = Head(rxBuffer)]_vars
    /\ [][(DemuxGet0 /\ rxPos = 0) =>
             /\ UNCHANGED <<rxBuffer, rxPos, c, pulled>>
             /\ rxt_pc' = "loop"]_vars
    /\ [](rxt_pc = "get0" => ENABLED DemuxGet0)
    /\ [](pulled \o rxBuffer = PushedSoFar)

\* bytes were taken one by one and more than one is left in the buffer
C19_Witness ==
    /\ Len(pulled) >= 2
    /\ Len(rxBuffer) >= 2
    /\ rxPos = Len(rxBuffer)
    /\ rxt_pc = "loop"

\* ------------------------------------------------------------ esp8266AT_Disconnect

connRest == <<pHostName, port, connLocals, connCalls, handshakes>>
\* what no step of Disconnect touches
closeRest == <<garbage, demuxVars, last, ret, otherCalls, connRest, histVars>>

\* part_000:127-128: the call, made once a Connect was made and no
\* Disconnect since, sets the status
DisconnectCall ==
    /\ proc = "running" /\ pc = "idle"
    /\ "serial" \in {stages[i] : i \in 1..Len(stages)}
    /\ "reset" \notin {stages[i] : i \in 1..Len(stages)}
    /\ esp8266_status' = AT_UNINITIALIZED
    /\ stages' = Append(stages, "reset")
    /\ pc' = "disc_join"
    /\ UNCHANGED <<proc, serialVars, deviceVars, queueVars, mqOpen, fdOpen,
                   closeRest>>

\* part_000:129: pthread_join(thread_id, NULL) returns when the
\* demultiplexer has left its loop
DisconnectJoin ==
    /\ proc = "running" /\ pc = "disc_join"
    /\ rxt_pc = "exit"
    /\ stages' = Append(stages, "joined")
    /\ pc' = "disc_mq_close"
    /\ UNCHANGED <<proc, serialVars, deviceVars, esp8266_status, queueVars,
                   mqOpen, fdOpen, closeRest>>

\* part_000:130-133: the four mq_close calls
DisconnectQueues ==
    /\ proc = "running" /\ pc = "disc_mq_close"
    /\ mqOpen' = FALSE
    /\ stages' = Append(stages, "queues_closed")
    /\ pc' = "close_run"
    /\ UNCHANGED <<proc, serialVars, deviceVars, esp8266_status, queueVars,
                   fdOpen, closeRest>>

\* part_001:141-143: vSerialClose, if (serial_fd); run = 0
CloseRun ==
    /\ proc = "running" /\ pc = "close_run"
    /\ IF serial_fd # 0
       THEN run' = 0 /\ pc' = "close_rx_pos"
       ELSE pc' = "disc_unlink" /\ UNCHANGED run
    /\ UNCHANGED <<proc, serial_fd, bufferLen, rxBuffer, txBuffer, rxPos,
                   txPos, srx_pc, srx_c, stx_pc, stx_c, deviceVars,
                   esp8266_status, queueVars, lifeVars, closeRest>>

\* part_001:143: rxPos = 0, without rxBufferLock
CloseRxPos ==
    /\ proc = "running" /\ pc = "close_rx_pos"
    /\ rxPos' = 0 /\ rxBuffer' = <<>>
    /\ pc' = "close_tx_pos"
    /\ UNCHANGED <<proc, serial_fd, bufferLen, txBuffer, txPos, run, srx_pc,
                   srx_c, stx_pc, stx_c, deviceVars, esp8266_status,
                   queueVars, lifeVars, closeRest>>

\* part_001:143: txPos = 0, without txBufferLock
CloseTxPos ==
    /\ proc = "running" /\ pc = "close_tx_pos"
    /\ txPos' = 0 /\ txBuffer' = <<>>
    /\ pc' = "close_nudge"
    /\ UNCHANGED <<proc, serial_fd, bufferLen, rxBuffer, rxPos, run, srx_pc,
                   srx_c, stx_pc, stx_c, deviceVars, esp8266_status,
                   queueVars, lifeVars, closeRest>>

\* part_001:146: write(serial_fd, txBuffer, 1); the modem echoes the byte,
\* or does not (ATE0 turned the echo off)
CloseNudge ==
    /\ proc = "running" /\ pc = "close_nudge"
    /\ \E echoed \in BOOLEAN :
          script' = IF echoed /\ fdOpen THEN Append(script, garbage)
                    ELSE script
    /\ pc' = "close_join_rx"
    /\ UNCHANGED <<proc, serialVars, wirePos, replies, esp8266_status,
                   queueVars, lifeVars, closeRest>>

\* part_001:147-148: pthread_join(comThreads[0], NULL)
CloseJoinRx ==
    /\ proc = "running" /\ pc = "close_join_rx"
    /\ srx_pc = "done"
    /\ pc' = "close_join_tx"
    /\ UNCHANGED <<proc, serialVars, deviceVars, esp8266_status, queueVars,
                   lifeVars, closeRest>>

\* part_001:149-150: pthread_join(comThreads[1], NULL)
CloseJoinTx ==
    /\ proc = "running" /\ pc = "close_join_tx"
    /\ stx_pc = "done"
    /\ pc' = "close_free"
    /\ UNCHANGED <<proc, serialVars, deviceVars, esp8266_status, queueVars,
                   lifeVars, closeRest>>

\* part_001:152-159: the buffers are freed, bufferLen = 0, and the
\* descriptor is closed; assert(!rc) ends the process when close() fails
CloseFree ==
    /\ proc = "running" /\ pc = "close_free"
    /\ bufferLen' = 0
    /\ rxBuffer' = <<>> /\ txBuffer' = <<>>
    /\ IF fdOpen
       THEN /\ fdOpen' = FALSE
            /\ stages' = Append(stages, "serial_closed")
            /\ pc' = "disc_unlink"
            /\ UNCHANGED proc
       ELSE /\ proc' = "aborted"
            /\ UNCHANGED <<fdOpen, stages, pc>>
    /\ UNCHANGED <<serial_fd, rxPos, txPos, run, srx_pc, srx_c, stx_pc, stx_c,
                   deviceVars, esp8266_status, queueVars, mqOpen, closeRest>>

\* part_000:135-137: the two mq_unlink calls remove the queues with what
\* they hold, and Disconnect returns
DisconnectUnlink ==
    /\ proc = "running" /\ pc = "disc_unlink"
    /\ controlQ' = <<>> /\ dataQ' = <<>>
    /\ pc' = "idle" /\ last' = "disconnect"
    /\ ret' = ESP8266_TRANSPORT_SUCCESS
    /\ UNCHANGED <<proc, serialVars, deviceVars, esp8266_status, garbage,
                   demuxVars, otherCalls, connVars, histVars>>

Disconnect ==
    \/ DisconnectCall \/ DisconnectJoin \/ DisconnectQueues
    \/ CloseRun \/ CloseRxPos \/ CloseTxPos \/ CloseNudge
    \/ CloseJoinRx \/ CloseJoinTx \/ CloseFree
    \/ DisconnectUnlink

\* the demultiplexer once it has left its first wait
DemuxRunning ==
    \/ DemuxLoop \/ DemuxGet0 \/ DemuxPut0 \/ DemuxGet
    \/ DemuxFlush \/ DemuxLen \/ DemuxPayGet \/ DemuxPayPut

\* a queue that nobody read while the modem kept sending
FullOf(n) == [i \in 1..n |-> "x"]

\* what the device delivers while Disconnect runs: nothing, a plain byte,
\* a marker begun and broken off, a marker begun, a length begun, a payload
\* begun, a whole frame
CloseScripts ==
    { <<>>, <<"x">>, <<"+", "x">>, Partial(2), Marker \o <<"1">>,
      Marker \o <<"2", ":", "a">>, LastFrame }

\* commands the caller left in the transmit buffer
CloseTxPending == {<<>>, <<"A", "T">>}

\* the transport as a Connect call that reached the handshake leaves it:
\* the workers running, the status CONNECTED or ERROR
InitClose ==
    /\ garbage = "x"
    /\ script \in CloseScripts
    /\ wirePos = 0 /\ replies = <<>>
    /\ proc = "running"
    /\ serial_fd = DEVICE_FD /\ fdOpen = TRUE
    /\ bufferLen = BUFFER_LEN
    /\ rxBuffer = <<>> /\ rxPos = 0
    /\ txBuffer \in CloseTxPending /\ txPos = Len(txBuffer)
    /\ run = 1
    /\ srx_pc = "top" /\ stx_pc = "top"
    /\ srx_c = garbage /\ stx_c = garbage
    /\ esp8266_status \in {CONNECTED, ERROR}
    /\ mqOpen = TRUE
    /\ stages \in {<<"serial", "queues", "thread", "handshake", "tcp">>,
                   <<"serial", "queues", "thread", "handshake">>}
    /\ controlQ \in {<<>>, FullOf(ControlQLen)}
    /\ dataQ \in {<<>>, FullOf(DataQLen)}
    /\ rxt_pc = "loop"
    /\ c = [k \in 0..(SCRATCH_LEN - 1) |-> garbage]
    /\ data_lenght = 0 /\ index = 0 /\ flush_n = 0 /\ flush_i = 0
    /\ pulled = <<>> /\ ctrlPut = <<>> /\ dataPut = <<>>
    /\ CallerIdle

NextClose == SerialRx \/ SerialTx \/ DemuxRunning \/ Disconnect

\* Disconnect called while the workers and the demultiplexer run
SpecClose == InitClose /\ [][NextClose]_vars

FairnessClose ==
    /\ WF_vars(SerialRx) /\ WF_vars(SerialTx) /\ WF_vars(DemuxRunning)
    /\ WF_vars(Disconnect)

SpecCloseFair == SpecClose /\ FairnessClose

\* ------------------------------------------------------------ claim C16

\* C16: once esp8266AT_Disconnect has set the status to AT_UNINITIALIZED,
\* the demultiplexer leaves its loop: also from the middle of a marker,
\* of a length, of a payload, and from a put into a full queue.
C16_DemuxStopsAfterDisconnect ==
    (esp8266_status = AT_UNINITIALIZED) ~> (rxt_pc = "exit")

\* ------------------------------------------------------------ claim C20

\* C20: in every reachable state, with the caller, the demultiplexer, the
\* two workers and vSerialClose interleaved in any way, rxPos and txPos are
\* between 0 and the capacity given at init; no pop runs on an empty buffer
\* and no counter wraps below zero.
C20_OccupancyWithinCapacity ==
    /\ 0 <= rxPos /\ rxPos <= BUFFER_LEN
    /\ 0 <= txPos /\ txPos <= BUFFER_LEN
    /\ ~(stx_pc = "pop" /\ txPos = 0)
    /\ proc # "crashed"

\* ------------------------------------------------------------ claim C14

DisconnectReturned == pc = "idle" /\ last = "disconnect"

\* the stages of a Disconnect, as far as it came
CloseStages == <<"reset", "joined", "queues_closed", "serial_closed">>
StagesSinceReset ==
    LET first == CHOOSE i \in 1..Len(stages) : stages[i] = "reset"
    IN  SubSeq(stages, first, Len(stages))

\* the status is reset, then the demultiplexer joined, then the queues
\* closed, then the serial link closed; and a Disconnect that returns
\* returns success with every worker ended
DisconnectInOrder ==
    /\ pc \notin {"idle"} => esp8266_status = AT_UNINITIALIZED
    /\ Times("reset") > 0 => IsPrefix(StagesSinceReset, CloseStages)
    /\ Times("joined") > 0 => rxt_pc = "exit"
    /\ DisconnectReturned =>
          /\ ret = ESP8266_TRANSPORT_SUCCESS
          /\ esp8266_status = AT_UNINITIALIZED
          /\ StagesSinceReset = CloseStages
          /\ rxt_pc = "exit" /\ srx_pc = "done" /\ stx_pc = "done"
          /\ ~mqOpen /\ ~fdOpen

\* C14: esp8266AT_Disconnect, called in a state a Connect call left, sets
\* the status to AT_UNINITIALIZED, then waits for the demultiplexer to
\* exit, then closes the queues, then closes the serial link, and returns
\* success; when it has returned, neither the demultiplexer nor a worker of
\* the serial link is running.
C14_DisconnectInOrderAndReturns ==
    /\ []DisconnectInOrder
    /\ (pc = "disc_join") ~> DisconnectReturned

\* ------------------------------------------------------------ claim C21

\* 128 bytes the device delivered before the demultiplexer was scheduled:
\* a marker broken off, a frame, then plain bytes
FullContent ==
    <<"+", "x">> \o Frame(1, 0)
       \o FullOf(BUFFER_LEN - 2 - Len(Frame(1, 0)))

\* what the device delivers after them
FullTails == {<<"y">>, <<"y", "z">>, <<"+", "y", "z">>}

\* the receive buffer full, the receive worker back at the top of its loop,
\* the demultiplexer not yet run: part_001:173-183
InitFull ==
    /\ garbage = "x"
    /\ \E tail \in FullTails : script = FullContent \o tail
    /\ wirePos = BUFFER_LEN /\ replies = <<>>
    /\ proc = "running"
    /\ serial_fd = DEVICE_FD /\ fdOpen = TRUE
    /\ bufferLen = BUFFER_LEN
    /\ rxBuffer = FullContent /\ rxPos = BUFFER_LEN
    /\ txBuffer = <<>> /\ txPos = 0
    /\ run = 1
    /\ srx_pc = "top" /\ stx_pc = "top"
    /\ srx_c = "x" /\ stx_c = garbage
    /\ esp8266_status = AT_READY
    /\ mqOpen = TRUE
    /\ stages = <<"serial", "queues", "thread">>
    /\ controlQ = <<>> /\ dataQ = <<>>
    /\ rxt_pc = "wait"
    /\ c = [k \in 0..(SCRATCH_LEN - 1) |-> garbage]
    /\ data_lenght = 0 /\ index = 0 /\ flush_n = 0 /\ flush_i = 0
    /\ pulled = <<>> /\ ctrlPut = <<>> /\ dataPut = <<>>
    /\ CallerIdle

\* the demultiplexer draining a full receive buffer while the device sends
SpecFull == InitFull /\ [][NextDemux]_vars

\* the byte the receive worker read and has not pushed yet
HeldByte == IF srx_pc \in {"check", "push"} THEN <<srx_c>> ELSE <<>>
ReadSoFar == SubSeq(script, 1, wirePos)

\* C21: a byte read from the device while the receive buffer is full is
\* neither dropped nor written over: the receive worker holds it until there
\* is room and appends it then, so the bytes xSerialGetChar returned, the
\* bytes in the buffer and the byte held are, in this order, the bytes read
\* from the device; what xSerialGetChar returned is a prefix of them.
C21_FullBufferHoldsByte ==
    /\ [](pulled \o rxBuffer \o HeldByte = ReadSoFar)
    /\ [](IsPrefix(pulled, ReadSoFar))
    /\ [](rxPos = Len(rxBuffer) /\ rxPos <= bufferLen)
    /\ [][srx_pc = "check" => srx_c' = srx_c]_vars
    /\ [][(srx_pc = "check" /\ rxPos = bufferLen) => srx_pc' = "check"]_vars

\* a byte read while the buffer was full was appended when a byte had been
\* taken, and the next byte is held while the buffer is full again
C21_Witness ==
    /\ wirePos = BUFFER_LEN + 2
    /\ srx_pc = "check" /\ srx_c = "z"
    /\ rxPos = bufferLen
    /\ rxBuffer[Len(rxBuffer)] = "y"
    /\ Len(pulled) = 1

\* ------------------------------------------------------------ claim C22

\* the stages of Connect that initialize
InitStage == ConnectSerial \/ ConnectQueues \/ ConnectThread

\* C22: a Connect call made in state ERROR, after a handshake or a TCP-open
\* exchange failed, does not return at once and initializes nothing again
\* (serial link, queues and demultiplexer stay as they are); it runs the
\* handshake again and, the handshake passed, the TCP-open exchange, and it
\* returns success when the modem answers "\r\nOK\r\n" and then 'C'.
C22_RetryAfterProtocolFailure ==
    /\ [][(ConnectCalled /\ esp8266_status = ERROR) =>
             pc' = "conn_serial"]_vars
    /\ [][(InitStage /\ esp8266_status = ERROR) =>
             /\ UNCHANGED <<proc, serialVars, queueVars, demuxVars,
                            esp8266_status, lifeVars>>
             /\ pc' \in {"conn_mq", "conn_thread", "conn_ready"}]_vars
    /\ [][(ConnectReady /\ esp8266_status = ERROR) =>
             /\ pc' = "at_cmd"
             /\ UNCHANGED <<serialVars, queueVars, demuxVars, lifeVars>>]_vars
    /\ [][(HandshakeEnds /\ handshakes = 2) =>
             IF ReplyRead = OkReply
             THEN esp8266_status' = AT_READY /\ pc' = "tcp_close"
             ELSE esp8266_status' = ERROR /\ pc' = "idle"]_vars
    /\ [][(StartTCPReply /\ handshakes = 2 /\ controlQ # <<>>) =>
             esp8266_status' = (IF Head(controlQ) = "C" THEN CONNECTED
                                ELSE ERROR)]_vars
    /\ [][(StartTCPDrain /\ handshakes = 2 /\ pc' = "idle") =>
             ret' = (IF esp8266_status = CONNECTED
                     THEN ESP8266_TRANSPORT_SUCCESS
                     ELSE ESP8266_TRANSPORT_CONNECT_FAILURE)]_vars
    /\ [](Times("serial") <= 1 /\ Times("queues") <= 1 /\ Times("thread") <= 1)

\* the first call failed at the handshake, the second ran handshake and
\* TCP-open again on the same serial link, queues and demultiplexer, and
\* returned success
C22_Witness ==
    /\ connCalls = 2 /\ handshakes = 2
    /\ pc = "idle" /\ last = "connect" /\ ret = ESP8266_TRANSPORT_SUCCESS
    /\ esp8266_status = CONNECTED
    /\ stages = <<"serial", "queues", "thread", "handshake", "handshake",
                  "tcp">>
    /\ replies = <<>>

\* ------------------------------------------------------------ Connect and Disconnect

\* the modem of a session that is closed and opened again: it makes the
\* connection, or is not ready, and is silent at the second Connect
LifeReplies ==
    { <<OkReply, NoLinkReply, ConnectReply \o <<"+", "x">> \o LastFrame>>,
      <<ErrorReply>> }

\* the state after construction, as Init, with these modems
InitLife ==
    /\ garbage = "x"
    /\ script = <<>> /\ wirePos = 0
    /\ replies \in LifeReplies
    /\ proc = "running"
    /\ serial_fd = 0 /\ bufferLen = 0 /\ fdOpen = FALSE
    /\ mqOpen = FALSE /\ stages = <<>>
    /\ rxBuffer = <<>> /\ txBuffer = <<>>
    /\ rxPos = 0 /\ txPos = 0
    /\ run = 0
    /\ srx_pc = "unborn" /\ stx_pc = "unborn"
    /\ srx_c = garbage /\ stx_c = garbage
    /\ esp8266_status = AT_UNINITIALIZED
    /\ controlQ = <<>> /\ dataQ = <<>>
    /\ rxt_pc = "unborn"
    /\ c = [k \in 0..(SCRATCH_LEN - 1) |-> garbage]
    /\ data_lenght = 0 /\ index = 0 /\ flush_n = 0 /\ flush_i = 0
    /\ pulled = <<>> /\ ctrlPut = <<>> /\ dataPut = <<>>
    /\ CallerIdle

\* the caller calls Connect, alone or after a Disconnect or a failure
LifeConnect == ConnectCalled \/ ConnectSteps

\* the steps of a Disconnect call after the call itself
DisconnectSteps ==
    \/ DisconnectJoin \/ DisconnectQueues
    \/ CloseRun \/ CloseRxPos \/ CloseTxPos \/ CloseNudge
    \/ CloseJoinRx \/ CloseJoinTx \/ CloseFree
    \/ DisconnectUnlink

\* no byte is on its way: the device has delivered what it had, both
\* buffers are empty and the workers wait
Quiet ==
    /\ wirePos = Len(script)
    /\ rxPos = 0 /\ txPos = 0
    /\ srx_pc = "read" /\ stx_pc = "top"
    /\ rxt_pc \in {"loop", "get0"}

\* the caller calls Disconnect when the link is quiet
LifeDisconnect ==
    \/ Quiet /\ DisconnectCall
    \/ DisconnectSteps

NextLife == SerialRx \/ SerialTx \/ Demux \/ LifeConnect \/ LifeDisconnect

\* the transport from construction, the caller making Connect and
\* Disconnect calls in turn
SpecLife == InitLife /\ [][NextLife]_vars

\* ------------------------------------------------------------ claim C23

\* a step of a worker or of the demultiplexer
WorkerStep == SerialRx \/ SerialTx \/ Demux

\* C23: over Connect and Disconnect calls the status changes only from
\* AT_UNINITIALIZED to MQUEUE_UNINITIALIZED, from there to
\* RX_THREAD_UNINITIALIZED, from there to AT_READY, each by the stage of
\* Connect that initializes; from AT_READY, CONNECTED or ERROR to AT_READY
\* or ERROR at the end of a handshake; from AT_READY to CONNECTED or ERROR
\* by the TCP-open exchange; and from any status to AT_UNINITIALIZED by
\* Disconnect. Nothing but Disconnect moves the status back to an
\* initialization stage, and no worker writes it.
C23_StatusTransitions ==
    /\ [][esp8266_status' # esp8266_status =>
             \/ /\ ConnectSerial
                /\ esp8266_status = AT_UNINITIALIZED
                /\ esp8266_status' = MQUEUE_UNINITIALIZED
             \/ /\ ConnectQueues
                /\ esp8266_status = MQUEUE_UNINITIALIZED
                /\ esp8266_status' = RX_THREAD_UNINITIALIZED
             \/ /\ ConnectReady
                /\ esp8266_status = RX_THREAD_UNINITIALIZED
                /\ esp8266_status' = AT_READY
             \/ /\ CheckATReply
                /\ esp8266_status \in {AT_READY, CONNECTED, ERROR}
                /\ esp8266_status' \in {AT_READY, ERROR}
             \/ /\ StartTCPReply
                /\ esp8266_status = AT_READY
                /\ esp8266_status' \in {CONNECTED, ERROR}
             \/ /\ DisconnectCall
                /\ esp8266_status' = AT_UNINITIALIZED]_vars
    /\ [][(esp8266_status' < AT_READY /\ esp8266_status' < esp8266_status)
             => DisconnectCall]_vars
    /\ [][WorkerStep => esp8266_status' = esp8266_status]_vars

\* a session was opened, closed and opened again: the status went up to
\* CONNECTED, back to AT_UNINITIALIZED, and up to AT_READY again
C23_Witness ==
    /\ connCalls = 2 /\ handshakes = 2
    /\ Times("reset") = 1 /\ Times("tcp") = 1 /\ Times("serial") = 2
    /\ esp8266_status = AT_READY
    /\ pc = "at_reply"

\* ------------------------------------------------------------ claim C24

\* arguments with an empty host or an empty port: part_000:73 takes them as
\* they come, and start_TCP's loops over them stop at the first NUL,
\* part_000:282-290
InvalidArgs == { <<<<>>, <<"1">>>>, <<<<"h">>, <<>>>> }

IsInvalid(host, prt) == host = <<>> \/ prt = <<>>

\* the first call of the process
ConnectCalledInvalid ==
    /\ connCalls = 0
    /\ \E a \in InvalidArgs : ConnectCall(a[1], a[2])

NextParam == SerialRx \/ SerialTx \/ Demux \/ ConnectCalledInvalid \/ ConnectSteps

\* the transport from construction, the caller passing an empty host or an
\* empty port to Connect
SpecParam == InitLife /\ [][NextParam]_vars

\* C24: a Connect call with an empty host or an empty port returns
\* ESP8266_TRANSPORT_INVALID_PARAMETER and leaves the status and the
\* serial link as they were before the call (here: never opened).
C24_InvalidParameterRejected ==
    (pc = "idle" /\ last = "connect" /\ IsInvalid(pHostName, port))
        => /\ ret = ESP8266_TRANSPORT_INVALID_PARAMETER
           /\ esp8266_status = AT_UNINITIALIZED
           /\ ~fdOpen /\ run = 0 /\ bufferLen = 0
           /\ stages = <<>>

\* ------------------------------------------------------------ claim C25

\* the steps of the serial link made between pthread_mutex_lock and
\* pthread_mutex_unlock: part_001:175-178 (rxBufferLock) and part_001:193-199
\* (txBufferLock)
RxWorkerLocked == SerialRxPush
TxWorkerLocked == SerialTxPop

\* the steps of the serial link that call read() or write() on the device:
\* part_001:168, part_001:200, part_001:146
DeviceIO == SerialRxRead \/ SerialTxWrite \/ CloseNudge

\* the steps of vSerialClose, part_001:141-159: none takes a lock
CloseStep ==
    CloseRun \/ CloseRxPos \/ CloseTxPos \/ CloseNudge \/ CloseJoinRx
        \/ CloseJoinTx \/ CloseFree

bufferState == <<rxBuffer, txBuffer, rxPos, txPos>>

AccessesRx == SerialRxCheck \/ SerialRxPush \/ GetCharStep \/ CloseRxPos

\* the steps that read or write txBuffer or txPos: the transmit worker's
\* test and pop (part_001:192-199) and the store of vSerialClose
\* (part_001:143)
AccessesTx == (SerialTxTop /\ run # 0) \/ SerialTxPop \/ CloseTxPos

\* the steps made with rxBufferLock held: the worker's push, and the pop of
\* xSerialGetChar, which is entered when the test before it found a byte
HoldsRxLock == RxWorkerLocked \/ (GetCharStep /\ rxPos # 0)
HoldsTxLock == TxWorkerLocked

\* C26: every step that reads or writes a buffer or its counter is made
\* with that buffer's lock held, the test that decides a push or a pop
\* included.
C26_AccessUnderLock ==
    /\ [][AccessesRx => HoldsRxLock]_vars
    /\ [][AccessesTx => HoldsTxLock]_vars

\* ------------------------------------------------------------ claim C27

\* the bytes xSerialPutChar accepted and the transmit worker has not popped
\* yet, oldest first: part_001:126-127
AcceptedPending == txBuffer

\* C27: a byte leaves the transmit buffer only by the transmit worker's
\* pop, the oldest first and one at a time; the byte popped is written to
\* the device before the worker does anything else; and with the worker
\* scheduled, the oldest accepted byte is eventually popped for its write.
\* No accepted byte is dropped, a Disconnect with bytes pending included.
C27_AcceptedBytesWritten ==
    /\ [][(AcceptedPending' # AcceptedPending
              /\ Len(AcceptedPending') <= Len(AcceptedPending)) =>
             /\ SerialTxPop
             /\ <<stx_c'>> \o AcceptedPending' = AcceptedPending]_vars
    /\ [][(stx_pc = "write" /\ stx_pc' # "write") =>
             SerialTxWrite /\ fdOpen]_vars
    /\ (AcceptedPending # <<>>) ~> (stx_pc = "write")

\* ------------------------------------------------------------ claim C28

\* vSerialClose has written its nudge and waits in a pthread_join:
\* part_001:147-150
CloseJoining == pc \in {"close_join_rx", "close_join_tx"}

\* C28: once vSerialClose has cleared run and written the nudge byte, both
\* workers exit and both joins complete after finitely many steps, whether
\* the device echoes the nudge or sends nothing more.
C28_CloseTerminates ==
    CloseJoining ~>
        \/ srx_pc = "done" /\ stx_pc = "done" /\ ~CloseJoining
        \/ proc # "running"

\* ------------------------------------------------------------ claim C29

\* how many demultiplexers were created within a run of stages
Created(run_of_stages) ==
    Cardinality({i \in 1..Len(run_of_stages) : run_of_stages[i] = "thread"})

\* the stages before the first Disconnect
StagesBeforeReset ==
    IF Times("reset") = 0 THEN stages
    ELSE SubSeq(stages, 1, Len(stages) - Len(StagesSinceReset))

\* the session the process is in: up to the Disconnect, or from it on
ThisSession == IF Times("reset") = 0 THEN stages ELSE StagesSinceReset

\* a demultiplexer exists: created and not yet returned
DemuxLive == rxt_pc \notin {"unborn", "exit"}

\* C29: a demultiplexer is created only by Connect's thread stage and only
\* when none is live; at most one is created before a Disconnect and at most
\* one after it, exactly one in a session that has reached AT_READY; while
\* the status is MQUEUE_UNINITIALIZED or RX_THREAD_UNINITIALIZED the worker
\* has not left its first wait; in AT_READY, CONNECTED and ERROR it is
\* live; and it returns only once Disconnect has reset the status.
C29_DemuxLifetime ==
    /\ [][(rxt_pc' = "wait" /\ rxt_pc # "wait") =>
             ConnectThread /\ ~DemuxLive]_vars
    /\ [](Created(StagesBeforeReset) <= 1 /\ Created(ThisSession) <= 1)
    /\ [](esp8266_status >= AT_READY => Created(ThisSession) = 1)
    /\ [](esp8266_status \in {MQUEUE_UNINITIALIZED, RX_THREAD_UNINITIALIZED}
             => rxt_pc \in {"unborn", "wait", "exit"})
    /\ [][DemuxWait => esp8266_status' # RX_THREAD_UNINITIALIZED]_vars
    /\ [](esp8266_status \in {AT_READY, CONNECTED, ERROR} => DemuxLive)
    /\ [][(rxt_pc' = "exit" /\ rxt_pc # "exit") =>
             esp8266_status = AT_UNINITIALIZED /\ LastStage = "reset"]_vars

\* a second demultiplexer runs in the session opened after a Disconnect,
\* the first one having returned
C29_Witness ==
    /\ Times("thread") = 2 /\ Times("reset") = 1 /\ Times("joined") = 1
    /\ esp8266_status = AT_READY
    /\ rxt_pc = "get0"

\* ------------------------------------------------------------ claim C30

\* the step that ends the length loop and calls atoi: part_000:336-342
LengthParsed == DemuxLen /\ rxt_pc' # "len"

AllDigits(s) == \A i \in 1..Len(s) : s[i] \in DigitChars

\* C30: when the length loop has taken a text of 1 to 8 digits and the ':'
\* that ends it, the count of payload bytes to relay is the decimal value
\* of those digits, whatever the scratch array held before; the ':' is the
\* last byte the loop took, and the count is not negative.
C30_LengthIsValueOfDigits ==
    [][LengthParsed =>
          LET taken == SubSeq(pulled', Len(pulled') - index' + 1, Len(pulled'))
              digits == SubSeq(taken, 1, Len(taken) - 1)
          IN  (/\ Len(taken) \in 2..9
               /\ taken[Len(taken)] = ":"
               /\ AllDigits(digits))
                  => /\ data_lenght' = DecimalValue(digits)
                     /\ data_lenght' >= 0]_vars

\* ------------------------------------------------------------ claim C31

\* C31: the TCP-open exchange sets CONNECTED only when its read took a 'C'
\* off the control queue; when the control queue is empty at that read the
\* status becomes ERROR, whatever start_TCP's c held from the bytes drained
\* before; and Connect returns by that status.
C31_ConnectedOnlyOnMarkerRead ==
    /\ [][StartTCPReply =>
             /\ esp8266_status' = CONNECTED =>
                   controlQ # <<>> /\ Head(controlQ) = "C"
             /\ controlQ = <<>> => esp8266_status' = ERROR]_vars
    /\ [][(StartTCPDrain /\ pc' = "idle") =>
             (ret' = ESP8266_TRANSPORT_SUCCESS
                 <=> esp8266_status = CONNECTED)]_vars

\* ------------------------------------------------------------ claim C32

\* C32: every byte of the AT+CIPSEND command of every round, its CR LF
\* included, is accepted by the serial link when esp8266AT_send offers it:
\* the whole command is appended to the transmit buffer, in order, and no
\* round has lost a command byte.
C32_CommandAcceptedWhole ==
    /\ [][SendCommand => txBuffer' = txBuffer \o OfferedCommand]_vars
    /\ [](\A r \in 1..Len(rounds) : rounds[r].lost = 0)

\* ------------------------------------------------------------ claim C33

\* control bytes the modem has emitted and no call has drained: one short of
\* the control queue's capacity, or the whole of it
FloodLevels == {0, ControlQLen - 1, ControlQLen}

\* what the device delivers next: a frame, or control bytes and then a frame
FloodScripts ==
    { <<"x">> \o Frame(n, 0) : n \in 1..MaxPayload }
        \cup { Frame(1, 0), <<"+", "x">> \o LastFrame }

\* the transport after a Connect, the caller calling nothing but recv
InitFlood ==
    /\ garbage = "x"
    /\ script \in FloodScripts
    /\ wirePos = 0 /\ replies = <<>>
    /\ proc = "running"
    /\ SerialStarted
    /\ esp8266_status = CONNECTED
    /\ mqOpen = TRUE
    /\ stages = <<"serial", "queues", "thread", "handshake", "tcp">>
    /\ \E level \in FloodLevels : controlQ = FullOf(level)
    /\ dataQ = <<>>
    /\ rxt_pc = "loop"
    /\ c = [k \in 0..(SCRATCH_LEN - 1) |-> garbage]
    /\ data_lenght = 0 /\ index = 0 /\ flush_n = 0 /\ flush_i = 0
    /\ pulled = <<>> /\ ctrlPut = <<>> /\ dataPut = <<>>
    /\ CallerIdle

\* every thread is scheduled, and the caller keeps calling recv, with room
\* for a byte again and again
FairnessFlood ==
    /\ WF_vars(SerialRx) /\ WF_vars(DemuxRunning) /\ WF_vars(Recv)
    /\ SF_vars(RecvCall(<<0, 1>>))

NextFlood == SerialRx \/ DemuxRunning \/ Recv

SpecFlood == InitFlood /\ [][NextFlood]_vars /\ FairnessFlood

\* C33: the payload of a frame the device delivers is eventually returned
\* by recv in full, the caller calling recv again and again, however many
\* control bytes the modem has emitted.
C33_PayloadEventuallyReturned == <>(dataGot = IntendedData(script))

\* ------------------------------------------------------------ claim C34

\* the serial stage of a Connect that follows a Disconnect starts the
\* workers again: part_000:84-87, part_001:85-89
SerialRestarted == ConnectSerial /\ last = "disconnect" /\ run' = 1

\* C34: when Connect starts the serial link again after a Disconnect, both
\* buffers start empty (rxPos = 0, txPos = 0, no byte of the fresh
\* allocations counted as content) and both queues start empty; and the
\* demultiplexer of the new session pulls only bytes the device delivered.
C34_CleanRestart ==
    /\ [][SerialRestarted =>
             /\ rxPos' = 0 /\ txPos' = 0
             /\ rxBuffer' = <<>> /\ txBuffer' = <<>>
             /\ controlQ' = <<>> /\ dataQ' = <<>>]_vars
    /\ [](IsPrefix(pulled, script))

\* ------------------------------------------------------------ claim C35

\* the transport connected, and the device lost since: write(serial_fd, &c, 1)
\* returns -1 from now on (part_001:200)
InitSendLost ==
    /\ garbage = "x"
    /\ script = <<>> /\ wirePos = 0 /\ replies = <<>>
    /\ proc = "running"
    /\ serial_fd = DEVICE_FD /\ fdOpen = FALSE
    /\ bufferLen = BUFFER_LEN
    /\ rxBuffer = <<>> /\ txBuffer = <<>>
    /\ rxPos = 0 /\ txPos = 0
    /\ run = 1
    /\ srx_pc = "top" /\ stx_pc = "top"
    /\ srx_c = garbage /\ stx_c = garbage
    /\ esp8266_status = CONNECTED
    /\ mqOpen = TRUE
    /\ stages = <<"serial", "queues", "thread", "handshake", "tcp">>
    /\ controlQ = <<>> /\ dataQ = <<>>
    /\ rxt_pc = "loop"
    /\ c = [k \in 0..(SCRATCH_LEN - 1) |-> garbage]
    /\ data_lenght = 0 /\ index = 0 /\ flush_n = 0 /\ flush_i = 0
    /\ pulled = <<>> /\ ctrlPut = <<>> /\ dataPut = <<>>
    /\ CallerIdle

\* the transmit worker and the caller are scheduled
FairnessSend == WF_vars(SerialTx) /\ WF_vars(Send)

SpecSendLost == InitSendLost /\ [][NextSend]_vars /\ FairnessSend

\* C35: a call of esp8266AT_send returns after finitely many steps, for
\* every length, also when the transmit worker has stopped on a failed
\* device write.
C35_SendReturns == (pc # "idle") ~> (pc = "idle")

\* ------------------------------------------------------------ claim C36

\* the transport after a Connect that failed in its handshake, a frame
\* arriving behind a control byte; the modem answers the next handshake
InitOwn ==
    /\ garbage = "x"
    /\ script = <<"+", "x">> \o LastFrame
    /\ wirePos = 0
    /\ replies = <<OkReply, NoLinkReply, ConnectReply>>
    /\ proc = "running"
    /\ SerialStarted
    /\ esp8266_status = ERROR
    /\ mqOpen = TRUE
    /\ stages = <<"serial", "queues", "thread", "handshake">>
    /\ controlQ = <<>> /\ dataQ = <<>>
    /\ rxt_pc = "loop"
    /\ c = [k \in 0..(SCRATCH_LEN - 1) |-> garbage]
    /\ data_lenght = 0 /\ index = 0 /\ flush_n = 0 /\ flush_i = 0
    /\ pulled = <<>> /\ ctrlPut = <<>> /\ dataPut = <<>>
    /\ CallerIdle

\* the caller makes one esp8266AT_Connect (check_AT and start_TCP), then
\* one esp8266AT_send of one byte, then esp8266AT_recv calls with room for
\* one byte
NextOwn ==
    \/ SerialRx \/ SerialTx \/ DemuxRunning
    \/ (connCalls = 0 /\ ConnectCalled) \/ ConnectSteps
    \/ (connCalls = 1 /\ SendCall(1))
    \/ SendHead \/ SendCommand \/ SendPayload \/ SendDrain
    \/ (sendCalls = 1 /\ RecvCall(<<0, 1>>)) \/ RecvStep

\* the caller connecting, then sending, then receiving while a frame arrives
SpecOwn == InitOwn /\ [][NextOwn]_vars

\* C36: esp8266AT_send, check_AT and start_TCP remove bytes from the control
\* queue alone and leave the data queue as it is; esp8266AT_recv removes
\* bytes from the data queue alone; a queue grows only by a step of the
\* demultiplexer; and every byte the demultiplexer put in the data queue is
\* in the queue, in a running recv's buffer or was returned by recv, in
\* order, whatever send drained meanwhile.
C36_QueueOwnership ==
    /\ [][(Send \/ Connect) => dataQ' = dataQ]_vars
    /\ [][Recv => controlQ' = controlQ]_vars
    /\ [][(Len(controlQ') > Len(controlQ) \/ Len(dataQ') > Len(dataQ))
             => DemuxRunning]_vars
    /\ [][controlQ' # controlQ =>
             \/ DemuxRunning /\ controlQ' = Append(controlQ, ctrlPut'[Len(ctrlPut')])
             \/ (Send \/ Connect) /\ controlQ' = Tail(controlQ)]_vars
    /\ [](dataGot \o pBuffer \o dataQ = dataPut)

\* a send has drained a control byte and returned while the frame's payload
\* byte was in the data queue, and recv has returned that byte since
C36_Witness ==
    /\ sendCalls = 1 /\ last = "recv" /\ pc = "idle"
    /\ dataGot = <<"z">>
    /\ ctrlPut # <<>> /\ controlQ = <<>>

\* ---------------------------------------------------------------- claim C37

\* the transport in the middle of a frame whose payload is one byte longer
\* than the data queue, recv not called yet: the demultiplexer has brought
\* all but two of the payload bytes to the data queue (part_000:343-346),
\* the receive worker has read ahead of it all but the last byte of what
\* the device delivers (the frame, a partial marker, a short frame and two
\* control bytes), and the control queue holds bytes the modem sent before
InitLong ==
    LET LongLen == DataQLen + 1
        LongDone == DataQLen - 1
        LongScript == Frame(LongLen, 0) \o <<"+", "x">> \o LastFrame
                                        \o <<"x", "x">>
        LongPulled == Len(Frame(LongLen, 0)) - LongLen + LongDone
        LongRead == Len(LongScript) - 1
    IN  /\ garbage = "x"
        /\ script = LongScript
        /\ wirePos = LongRead /\ replies = <<>>
        /\ proc = "running"
        /\ serial_fd = DEVICE_FD /\ fdOpen = TRUE
        /\ bufferLen = BUFFER_LEN
        /\ rxBuffer = SubSeq(LongScript, LongPulled + 1, LongRead)
        /\ txBuffer = <<>>
        /\ rxPos = LongRead - LongPulled /\ txPos = 0
        /\ run = 1
        /\ srx_pc = "top" /\ stx_pc = "top"
        /\ srx_c = LongScript[LongRead] /\ stx_c = garbage
        /\ esp8266_status = CONNECTED
        /\ mqOpen = TRUE
        /\ stages = <<"serial", "queues", "thread", "handshake", "tcp">>
        /\ controlQ = FullOf(ControlQLen - 3)
        /\ dataQ = Payload(LongDone)
        /\ rxt_pc = "pay_get"
        /\ c = [k \in 0..(SCRATCH_LEN - 1) |->
                  CASE k = 0 -> Payload(LongDone)[LongDone]
                    [] k = 1 -> "2"
                    [] k = 2 -> "9"
                    [] k = 3 -> "D"
                    [] k = 4 -> NUL
                    [] k = 9 -> ":"
                    [] OTHER -> garbage]
        /\ data_lenght = LongLen - LongDone /\ index = 4
        /\ flush_n = 0 /\ flush_i = 0
        /\ pulled = SubSeq(LongScript, 1, LongPulled)
        /\ ctrlPut = <<>> /\ dataPut = Payload(LongDone)
        /\ CallerIdle

\* the caller calls esp8266AT_recv with room for one byte, again and again
NextLong == SerialRx \/ DemuxRunning \/ RecvCall(<<0, 1>>) \/ RecvStep

\* the demultiplexer's payload loop and the caller's recv are scheduled
FairnessLong ==
    /\ WF_vars(DemuxPayGet) /\ WF_vars(DemuxPayPut)
    /\ WF_vars(RecvCall(<<0, 1>>)) /\ WF_vars(RecvStep)

\* the caller receiving while the long frame arrives
SpecLong == InitLong /\ [][NextLong]_vars /\ FairnessLong

\* C37: the control queue never holds more than 64 bytes and the data queue
\* never more than 128; while the queue it is sending to is full the
\* demultiplexer stays where it is, keeps the byte, and the queue loses
\* nothing but what recv takes from its head; every byte it sends is
\* appended; so the payload of a frame longer than the data queue reaches
\* the caller complete and in order as recv drains the queue.
C37_QueueBounds ==
    /\ [](Len(controlQ) <= 64 /\ Len(dataQ) <= 128)
    /\ [][(rxt_pc = "pay_put" /\ Len(dataQ) = DataQLen) =>
            /\ rxt_pc' = rxt_pc /\ c' = c /\ data_lenght' = data_lenght
            /\ dataPut' = dataPut
            /\ dataQ' \in {dataQ, Tail(dataQ)}]_vars
    /\ [][(rxt_pc \in {"put0", "flush"} /\ Len(controlQ) = ControlQLen) =>
            /\ rxt_pc' = rxt_pc /\ c' = c /\ flush_i' = flush_i
            /\ ctrlPut' = ctrlPut
            /\ controlQ' = controlQ]_vars
    /\ [][dataPut' # dataPut =>
            dataQ' = Append(dataQ, dataPut'[Len(dataPut')])]_vars
    /\ [][ctrlPut' # ctrlPut =>
            controlQ' = Append(controlQ, ctrlPut'[Len(ctrlPut')])]_vars
    /\ [](IsPrefix(dataGot \o pBuffer \o dataQ,
                   Payload(DataQLen + 1) \o <<"z">>))
    /\ <>(IsPrefix(Payload(DataQLen + 1), dataGot))

\* recv has taken bytes, the data queue is full again and the demultiplexer
\* waits with the last byte of the long frame
C37_Witness ==
    /\ Len(dataQ) = DataQLen /\ rxt_pc = "pay_put" /\ data_lenght = 1
    /\ dataGot # <<>> /\ last = "recv"

\* ---------------------------------------------------------------- claim C38

\* C38: whenever esp8266AT_Connect returns, its result is success or
\* connect_failure; it is success exactly when the status is CONNECTED at
\* that moment, and connect_failure exactly when the status is ERROR or
\* the status of the stage that failed (RX_THREAD_UNINITIALIZED, the
\* demultiplexer not created).
C38_ResultAgreesWithState ==
    [][(Connect /\ pc' = "idle") =>
          /\ last' = "connect"
          /\ ret' \in {ESP8266_TRANSPORT_SUCCESS,
                       ESP8266_TRANSPORT_CONNECT_FAILURE}
          /\ ret' = ESP8266_TRANSPORT_SUCCESS
                <=> esp8266_status' = CONNECTED
          /\ ret' = ESP8266_TRANSPORT_CONNECT_FAILURE
                <=> \/ esp8266_status' = ERROR
                    \/ /\ esp8266_status' = RX_THREAD_UNINITIALIZED
                       /\ stages'[Len(stages')] = "thread_failed"]_vars

\* the second call of Connect returned success from the TCP-open exchange,
\* after the first returned connect_failure with the demultiplexer not
\* created
C38_Witness ==
    /\ pc = "idle" /\ last = "connect" /\ ret = ESP8266_TRANSPORT_SUCCESS
    /\ esp8266_status = CONNECTED /\ connCalls = 2
    /\ stages = <<"serial", "queues", "thread_failed", "thread",
                  "handshake", "tcp">>

============================================================================
